-------------------------- MODULE C3LinearizeProofs --------------------------
(***************************************************************************)
(* Proofs about C3Linearize, for any contracts and hierarchies: whatever   *)
(* the merge is given and wherever it gives up, linearizations start with  *)
(* their contract and name none twice, and no contract is linearized by    *)
(* two calls at a time; a merge gives up only if it must, and the query    *)
(* panics only where hierarchies are at fault.                             *)
(*                                                                         *)
(* Linear is about finished linearizations; it is inductive together with  *)
(* what holds of one under way: nothing in it is still in a list to merge, *)
(* so that what a round appends is new.  KeepsOrder is inductive on top of *)
(* it, together with where each base's linearization stands in the merge.  *)
(* Panics and merges that give up have an invariant each: what a call was  *)
(* made for, and where the lists it merges come from.                      *)
(***************************************************************************)
EXTENDS C3Linearize, FiniteSetTheorems, SequenceTheorems, TLAPS

Frames == [def : Contract, todo : Seq(Base), lists : Seq(Seq(Contract)), out : Seq(Contract)]

(* The list s may be merged into out, where K are linearized already. *)
Mergeable(s, out, K) ==
    /\ Distinct(s)
    /\ \A i \in 1 .. Len(s) : s[i] \in K /\ \A j \in 1 .. Len(out) : s[i] # out[j]

Sane(frame, K) ==
    /\ frame \in Frames
    /\ frame.def \in Contract \ K
    /\ frame.out # <<>> /\ frame.out[1] = frame.def
    /\ Distinct(frame.out)
    /\ \A i \in 1 .. Len(frame.out) : frame.out[i] \in K \cup {frame.def}
    /\ frame.todo # <<>> => Len(frame.out) = 1
    /\ \A k \in 1 .. Len(frame.lists) : Mergeable(frame.lists[k], frame.out, K)

Finished(s, c, K) == s \in Seq(Contract) /\ s[1] = c /\ Distinct(s) /\ SeqRange(s) \subseteq K

IInv ==
    /\ bases \in Hierarchies
    /\ memo \in [Contract -> Seq(Contract) \cup {None}]
    /\ panicked \in {"no", "cycle", "unwrap"}
    /\ stack \in Seq(Frames)
    /\ \A k \in 1 .. Len(stack) : Sane(stack[k], Known)
    /\ \A k, l \in 1 .. Len(stack) : stack[k].def = stack[l].def => k = l
    /\ \A c \in Known : Finished(memo[c], c, Known)

(* s is what is left of t without its first n elements. *)
Remains(s, t, n) == Len(s) = Len(t) - n /\ \A i \in 1 .. Len(s) : s[i] = t[n + i]

(* The linearization t is being merged: some list is what remains of it,    *)
(* what does not remain has been taken over, and in the same order.         *)
Merged(frame, t) ==
    /\ \E l \in 1 .. Len(frame.lists) : \E n \in 0 .. Len(t) :
          /\ Remains(frame.lists[l], t, n)
          /\ \A i \in 1 .. n : \E j \in 1 .. Len(frame.out) : t[i] = frame.out[j]
    /\ Keeps(frame.out, t)

(* A base of the contract is still to be asked about, or is being merged.   *)
(* (h is the inheritance lists, m the memos.)                               *)
Ordered(frame, h, m) ==
    \A b \in SeqRange(h[frame.def]) \cap Contract :
        \/ \E i \in 1 .. Len(frame.todo) : frame.todo[i] = b
        \/ m[b] # None /\ Merged(frame, m[b])

InOrder(h, m) ==
    \A c \in Contract : m[c] # None =>
        \A b \in SeqRange(h[c]) \cap Contract : m[b] # None /\ Keeps(m[c], m[b])

OInv ==
    /\ IInv
    /\ \A k \in 1 .. Len(stack) : Ordered(stack[k], bases, memo)
    /\ InOrder(bases, memo)

-----------------------------------------------------------------------------
(* Sequences *)

LEMMA HeadTail ==
    ASSUME NEW S, NEW s \in Seq(S), s # <<>>
    PROVE  /\ Len(s) \in Nat \ {0} /\ Head(s) = s[1] /\ Head(s) \in S
           /\ Tail(s) \in Seq(S) /\ Len(Tail(s)) = Len(s) - 1
           /\ \A i \in 1 .. Len(Tail(s)) : Tail(s)[i] = s[i + 1]
  OBVIOUS

LEMMA Appended ==
    ASSUME NEW S, NEW s \in Seq(S), NEW e \in S
    PROVE  /\ Append(s, e) \in Seq(S) /\ Len(Append(s, e)) = Len(s) + 1
           /\ \A i \in 1 .. Len(s) : Append(s, e)[i] = s[i]
           /\ Append(s, e)[Len(s) + 1] = e
  OBVIOUS

LEMMA WithoutLast ==
    ASSUME NEW S, NEW s \in Seq(S), s # <<>>
    PROVE  /\ SubSeq(s, 1, Len(s) - 1) \in Seq(S)
           /\ Len(s) \in Nat \ {0} /\ Len(SubSeq(s, 1, Len(s) - 1)) = Len(s) - 1
           /\ \A k \in 1 .. (Len(s) - 1) : SubSeq(s, 1, Len(s) - 1)[k] = s[k]
  <1> DEFINE n == Len(s) - 1
  <1>1. n \in Nat /\ Len(s) \in Nat \ {0} /\ \A i \in 1 .. n : s[i] \in S
    OBVIOUS
  <1>2. 1 \in Int /\ n \in Int
    BY <1>1
  <1> HIDE DEF n
  <1>3. /\ SubSeq(s, 1, n) \in Seq(S)
        /\ Len(SubSeq(s, 1, n)) = IF 1 <= n THEN n - 1 + 1 ELSE 0
        /\ \A i \in 1 .. n - 1 + 1 : SubSeq(s, 1, n)[i] = s[1 + i - 1]
    BY <1>1, <1>2, SubSeqProperties
  <1>4. \A k \in 1 .. n : k \in 1 .. n - 1 + 1 /\ 1 + k - 1 = k
    BY <1>1
  <1>5. \A k \in 1 .. n : SubSeq(s, 1, n)[k] = s[k]
    BY <1>3, <1>4
  <1>6. Len(SubSeq(s, 1, n)) = n
    BY <1>1, <1>3
  <1> QED
    BY <1>1, <1>3, <1>5, <1>6 DEF n

LEMMA FunctionIsSeq ==
    ASSUME NEW S, NEW n \in Nat, NEW f \in [1 .. n -> S]
    PROVE  f \in Seq(S) /\ Len(f) = n
  OBVIOUS

LEMMA ReversedIsSeq ==
    ASSUME NEW S, NEW s \in Seq(S)
    PROVE  Reversed(s) \in Seq(S)
  <1>1. \A i \in 1 .. Len(s) : s[Len(s) + 1 - i] \in S
    OBVIOUS
  <1> QED
    BY <1>1 DEF Reversed

-----------------------------------------------------------------------------
(* What the steps of a call make of its frame *)

(* A call starts with nothing but its contract. *)
LEMMA FrameSane ==
    ASSUME NEW K, NEW c \in Contract \ K, bases[c] \in Seq(Base)
    PROVE  Sane(Frame(c), K)
  <1>1. Frame(c) \in Frames
    BY ReversedIsSeq DEF Frame, Frames
  <1>2. Frame(c).out = <<c>> /\ Len(<<c>>) = 1 /\ <<c>>[1] = c /\ Frame(c).def = c
    BY DEF Frame
  <1>3. Len(Frame(c).lists) = 0
    BY DEF Frame
  <1>4. Distinct(Frame(c).out)
    BY <1>2 DEF Distinct
  <1> QED
    BY <1>1, <1>2, <1>3, <1>4 DEF Sane

(* A base passed over. *)
LEMMA SkipSane ==
    ASSUME NEW K, NEW frame, Sane(frame, K), frame.todo # <<>>
    PROVE  Sane([frame EXCEPT !.todo = Tail(@)], K)
  <1> DEFINE next == [frame EXCEPT !.todo = Tail(@)]
  <1>1. Tail(frame.todo) \in Seq(Base)
    BY HeadTail DEF Sane, Frames
  <1>2. /\ next \in Frames /\ next.def = frame.def /\ next.out = frame.out
        /\ next.lists = frame.lists
    BY <1>1 DEF Sane, Frames
  <1> HIDE DEF next
  <1>3. Sane(next, K)
    BY <1>2 DEF Sane
  <1> QED
    BY <1>3 DEF next

(* A base's linearization got: nothing in it can be in out yet, which holds *)
(* the contract only.                                                       *)
LEMMA GotSane ==
    ASSUME NEW K, NEW frame, Sane(frame, K), frame.todo # <<>>,
           NEW list \in Seq(Contract), Distinct(list), SeqRange(list) \subseteq K
    PROVE  Sane([frame EXCEPT !.todo = Tail(@), !.lists = Append(@, list)], K)
  <1> DEFINE next == [frame EXCEPT !.todo = Tail(@), !.lists = Append(@, list)]
  <1>1. Tail(frame.todo) \in Seq(Base)
    BY HeadTail DEF Sane, Frames
  <1>2. frame.lists \in Seq(Seq(Contract))
    BY DEF Sane, Frames
  <1>3. /\ next.lists \in Seq(Seq(Contract)) /\ Len(next.lists) = Len(frame.lists) + 1
        /\ \A k \in 1 .. Len(frame.lists) : next.lists[k] = frame.lists[k]
        /\ next.lists[Len(frame.lists) + 1] = list
    <2>1. next.lists = Append(frame.lists, list)
      BY DEF Sane, Frames
    <2> HIDE DEF next
    <2> QED
      BY <1>2, <2>1, Appended
  <1>4. /\ next \in Frames /\ next.def = frame.def /\ next.out = frame.out
    BY <1>1, <1>3 DEF Sane, Frames
  <1> HIDE DEF next
  <1>5. Mergeable(list, frame.out, K)
    <2>1. \A i \in 1 .. Len(list) : list[i] \in K
      BY DEF SeqRange
    <2>2. \A j \in 1 .. Len(frame.out) : frame.out[j] \notin K
      BY DEF Sane
    <2> QED
      BY <2>1, <2>2 DEF Mergeable
  <1>6. \A k \in 1 .. Len(next.lists) : Mergeable(next.lists[k], next.out, K)
    <2> TAKE k \in 1 .. Len(next.lists)
    <2>1. CASE k = Len(frame.lists) + 1
      BY <1>3, <1>4, <1>5, <2>1
    <2>2. CASE k \in 1 .. Len(frame.lists)
      BY <1>3, <1>4, <2>2 DEF Sane
    <2> QED
      BY <1>2, <1>3, <2>1, <2>2
  <1>7. Sane(next, K)
    BY <1>4, <1>6 DEF Sane
  <1> QED
    BY <1>7 DEF next

(* A round of the merge: the good head, which is in no tail, is in out and  *)
(* in no list afterwards.                                                   *)
LEMMA RoundSane ==
    ASSUME NEW K, NEW frame, Sane(frame, K), frame.todo = <<>>,
           NEW k \in DOMAIN frame.lists, IsGood(frame, k)
    PROVE  Sane([frame EXCEPT !.lists = Without(frame, k),
                              !.out = Append(@, Head(frame.lists[k]))], K)
  <1> DEFINE lists == frame.lists
             head == Head(lists[k])
             rest == Without(frame, k)
             more == Append(frame.out, head)
             next == [frame EXCEPT !.lists = rest, !.out = Append(@, head)]
  <1>1. /\ frame \in Frames /\ lists \in Seq(Seq(Contract)) /\ frame.out \in Seq(Contract)
        /\ DOMAIN lists = 1 .. Len(lists) /\ Len(lists) \in Nat
    BY DEF Sane, Frames
  <1>2. \A l \in 1 .. Len(lists) : lists[l] \in Seq(Contract) /\ Mergeable(lists[l], frame.out, K)
    BY <1>1 DEF Sane
  <1>3. lists[k] # <<>> /\ head = lists[k][1] /\ head \in Contract /\ 1 \in 1 .. Len(lists[k])
    <2>1. lists[k] # <<>> /\ lists[k] \in Seq(Contract)
      BY <1>1, <1>2 DEF IsGood
    <2> QED
      BY <2>1, HeadTail
  <1>4. head \in K /\ \A j \in 1 .. Len(frame.out) : head # frame.out[j]
    BY <1>1, <1>2, <1>3 DEF Mergeable
  <1>5. \A l \in 1 .. Len(lists) : \A i \in 2 .. Len(lists[l]) : lists[l][i] # head
    BY <1>1 DEF IsGood
  <1>6. /\ more \in Seq(Contract) /\ Len(more) = Len(frame.out) + 1
        /\ \A i \in 1 .. Len(frame.out) : more[i] = frame.out[i]
        /\ more[Len(frame.out) + 1] = head
    BY <1>1, <1>3, Appended
  <1>7. DOMAIN rest = 1 .. Len(lists)
    BY <1>1 DEF Without
  <1>8. ASSUME NEW l \in 1 .. Len(lists)
        PROVE  /\ rest[l] \in Seq(Contract) /\ Distinct(rest[l])
               /\ \A i \in 1 .. Len(rest[l]) : /\ rest[l][i] \in K /\ rest[l][i] # head
                                               /\ \A j \in 1 .. Len(frame.out) : rest[l][i] # frame.out[j]
    <2>1. lists[l] \in Seq(Contract) /\ Mergeable(lists[l], frame.out, K)
      BY <1>2
    <2>2. CASE lists[l] # <<>> /\ Head(lists[l]) = head
      <3>1. rest[l] = Tail(lists[l])
        BY <1>1, <2>2 DEF Without
      <3>2. /\ Tail(lists[l]) \in Seq(Contract) /\ Len(Tail(lists[l])) = Len(lists[l]) - 1
            /\ Len(lists[l]) \in Nat \ {0}
            /\ \A i \in 1 .. Len(Tail(lists[l])) : Tail(lists[l])[i] = lists[l][i + 1]
        BY <2>1, <2>2, HeadTail
      <3> HIDE DEF rest, head, lists
      <3>3. \A i \in 1 .. Len(rest[l]) : /\ i + 1 \in 2 .. Len(lists[l]) /\ i + 1 \in 1 .. Len(lists[l])
                                         /\ rest[l][i] = lists[l][i + 1]
        BY <3>1, <3>2
      <3>4. Distinct(rest[l])
        <4> SUFFICES ASSUME NEW i \in 1 .. Len(rest[l]), NEW j \in 1 .. Len(rest[l]),
                            rest[l][i] = rest[l][j]
                     PROVE  i = j
          BY DEF Distinct
        <4>1. i + 1 = j + 1
          BY <2>1, <3>3 DEF Mergeable, Distinct
        <4> QED
          BY <3>1, <3>2, <4>1
      <3>5. \A i \in 1 .. Len(rest[l]) : /\ rest[l][i] \in K /\ rest[l][i] # head
                                         /\ \A j \in 1 .. Len(frame.out) : rest[l][i] # frame.out[j]
        BY <1>5, <2>1, <3>3 DEF Mergeable
      <3> QED
        BY <3>1, <3>2, <3>4, <3>5
    <2>3. CASE ~(lists[l] # <<>> /\ Head(lists[l]) = head)
      <3>1. rest[l] = lists[l]
        BY <1>1, <2>3 DEF Without
      <3>2. \A i \in 1 .. Len(lists[l]) : lists[l][i] # head
        <4> TAKE i \in 1 .. Len(lists[l])
        <4>1. Len(lists[l]) \in Nat /\ lists[l] # <<>> /\ Head(lists[l]) = lists[l][1]
          BY <2>1
        <4>2. i = 1 \/ i \in 2 .. Len(lists[l])
          BY <4>1
        <4> QED
          BY <1>5, <2>3, <4>1, <4>2
      <3> HIDE DEF rest, head, lists
      <3> QED
        BY <2>1, <3>1, <3>2 DEF Mergeable
    <2> QED
      BY <2>2, <2>3
  <1>9. rest \in Seq(Seq(Contract)) /\ Len(rest) = Len(lists)
    <2>1. rest = [l \in 1 .. Len(lists) |-> rest[l]]
      BY <1>1 DEF Without
    <2>2. rest \in [1 .. Len(lists) -> Seq(Contract)]
      <3> HIDE DEF rest, lists
      <3> QED
        BY <1>8, <2>1
    <2> HIDE DEF rest, lists
    <2> QED
      BY <1>1, <2>2, FunctionIsSeq
  <1>10. /\ next \in Frames /\ next.def = frame.def /\ next.todo = frame.todo
         /\ next.lists = rest /\ next.out = more
    <2> HIDE DEF rest, head
    <2> QED
      BY <1>1, <1>6, <1>9 DEF Frames
  <1> HIDE DEF next, rest, head, more, lists
  <1>11. Distinct(more)
    <2> SUFFICES ASSUME NEW i \in 1 .. Len(more), NEW j \in 1 .. Len(more), more[i] = more[j]
                 PROVE  i = j
      BY DEF Distinct
    <2>1. Len(frame.out) \in Nat
      BY <1>1
    <2>2. CASE i = Len(frame.out) + 1 /\ j = Len(frame.out) + 1
      BY <2>2
    <2>3. CASE i = Len(frame.out) + 1 /\ j \in 1 .. Len(frame.out)
      BY <1>4, <1>6, <2>3
    <2>4. CASE j = Len(frame.out) + 1 /\ i \in 1 .. Len(frame.out)
      BY <1>4, <1>6, <2>4
    <2>5. CASE i \in 1 .. Len(frame.out) /\ j \in 1 .. Len(frame.out)
      BY <1>6, <2>5 DEF Sane, Distinct
    <2> QED
      BY <1>6, <2>1, <2>2, <2>3, <2>4, <2>5
  <1>12. more # <<>> /\ more[1] = frame.def
    <2>1. 1 \in 1 .. Len(frame.out)
      BY <1>1 DEF Sane
    <2> QED
      BY <1>1, <1>6, <2>1 DEF Sane
  <1>13. \A i \in 1 .. Len(more) : more[i] \in K \cup {frame.def}
    <2> TAKE i \in 1 .. Len(more)
    <2>1. i \in 1 .. Len(frame.out) \/ i = Len(frame.out) + 1
      BY <1>1, <1>6
    <2> QED
      BY <1>4, <1>6, <2>1 DEF Sane
  <1>14. \A l \in 1 .. Len(rest) : Mergeable(rest[l], more, K)
    <2> TAKE l \in 1 .. Len(rest)
    <2>1. l \in 1 .. Len(lists)
      BY <1>9
    <2>2. ASSUME NEW i \in 1 .. Len(rest[l]), NEW j \in 1 .. Len(more)
          PROVE  rest[l][i] # more[j]
      <3>1. j \in 1 .. Len(frame.out) \/ j = Len(frame.out) + 1
        BY <1>1, <1>6
      <3> QED
        BY <1>6, <1>8, <2>1, <3>1
    <2> QED
      BY <1>8, <2>1, <2>2 DEF Mergeable
  <1>15. Sane(next, K)
    BY <1>10, <1>11, <1>12, <1>13, <1>14 DEF Sane
  <1> QED
    BY <1>15 DEF next, rest, head, lists

(* What is known only grows. *)
LEMMA SaneGrows ==
    ASSUME NEW K, NEW L, K \subseteq L, NEW frame, Sane(frame, K), frame.def \notin L
    PROVE  Sane(frame, L)
  <1>1. \A k \in 1 .. Len(frame.lists) : Mergeable(frame.lists[k], frame.out, L)
    BY DEF Sane, Mergeable
  <1> QED
    BY <1>1 DEF Sane

LEMMA FinishedGrows ==
    ASSUME NEW K, NEW L, K \subseteq L, NEW s, NEW c, Finished(s, c, K)
    PROVE  Finished(s, c, L)
  BY DEF Finished

-----------------------------------------------------------------------------
(* What the steps make of the stack *)

LEMMA TopSane ==
    ASSUME IInv, stack # <<>>
    PROVE  /\ Len(stack) \in 1 .. Len(stack) /\ Top = stack[Len(stack)]
           /\ Sane(Top, Known) /\ Top \in Frames
  BY DEF IInv, Top, Sane

(* The innermost call goes on. *)
LEMMA GoesOn ==
    ASSUME IInv, stack # <<>>, NEW frame, Sane(frame, Known), frame.def = Top.def,
           SetTop(frame), UNCHANGED <<bases, memo, panicked>>
    PROVE  IInv'
  <1>1. frame \in Frames
    BY DEF Sane
  <1>2. /\ stack' \in Seq(Frames) /\ Len(stack') = Len(stack)
        /\ \A k \in 1 .. Len(stack) :
              stack'[k] = IF k = Len(stack) THEN frame ELSE stack[k]
    BY <1>1 DEF IInv, SetTop
  <1>3. Known' = Known
    BY DEF Known
  <1>4. \A k \in 1 .. Len(stack') : Sane(stack'[k], Known) /\ stack'[k].def = stack[k].def
    BY <1>2, TopSane DEF IInv
  <1>5. \A k, l \in 1 .. Len(stack') : stack'[k].def = stack'[l].def => k = l
    BY <1>2, <1>4 DEF IInv
  <1> QED
    BY <1>2, <1>3, <1>4, <1>5 DEF IInv

(* A call of a contract that has no memo, and is in no call under way. *)
LEMMA Calls ==
    ASSUME IInv, NEW c \in Contract \ OnStack, memo[c] = None,
           stack' = Append(stack, Frame(c)), UNCHANGED <<bases, memo, panicked>>
    PROVE  IInv'
  <1>1. Sane(Frame(c), Known) /\ Frame(c) \in Frames /\ Frame(c).def = c
    <2>1. bases[c] \in Seq(Base)
      BY BaseAssumption DEF IInv
    <2>2. c \in Contract \ Known
      BY DEF Known
    <2>3. Sane(Frame(c), Known)
      BY <2>1, <2>2, FrameSane
    <2> QED
      BY <2>3 DEF Sane, Frame
  <1>2. /\ stack' \in Seq(Frames) /\ Len(stack') = Len(stack) + 1
        /\ \A k \in 1 .. Len(stack) : stack'[k] = stack[k]
        /\ stack'[Len(stack) + 1] = Frame(c)
    BY <1>1, Appended DEF IInv
  <1>3. Known' = Known
    BY DEF Known
  <1>4. \A k \in 1 .. Len(stack') : k \in 1 .. Len(stack) \/ k = Len(stack) + 1
    BY <1>2 DEF IInv
  <1>5. \A k \in 1 .. Len(stack') : Sane(stack'[k], Known)
    BY <1>1, <1>2, <1>4 DEF IInv
  <1>6. \A k \in 1 .. Len(stack) : stack[k].def # c
    BY DEF OnStack, IInv
  <1>7. \A k, l \in 1 .. Len(stack') : stack'[k].def = stack'[l].def => k = l
    BY <1>1, <1>2, <1>4, <1>6 DEF IInv
  <1> QED
    BY <1>2, <1>3, <1>5, <1>7 DEF IInv

(* The innermost call answers: its contract is linearized from now on, and  *)
(* is the contract of no other call.                                        *)
LEMMA Answers ==
    ASSUME IInv, stack # <<>>, Answer
    PROVE  IInv'
  <1> DEFINE c == Top.def
             L == Known \cup {c}
  <1>1. /\ c \in Contract \ Known /\ Top.out \in Seq(Contract) /\ Top.out # None
    BY TopSane, BaseAssumption DEF Sane, Frames
  <1>2. /\ memo' \in [Contract -> Seq(Contract) \cup {None}]
        /\ \A d \in Contract : memo'[d] = IF d = c THEN Top.out ELSE memo[d]
    BY <1>1 DEF IInv, Answer
  <1>3. Known' = L
    BY <1>1, <1>2 DEF Known
  <1>4. Finished(Top.out, c, L)
    <2>1. \A i \in 1 .. Len(Top.out) : Top.out[i] \in L
      BY TopSane DEF Sane
    <2>2. SeqRange(Top.out) \subseteq L
      BY <2>1 DEF SeqRange
    <2> QED
      BY <1>1, <2>2, TopSane DEF Finished, Sane
  <1>5. \A d \in L : Finished(memo'[d], d, L)
    <2> TAKE d \in L
    <2>1. CASE d = c
      BY <1>1, <1>2, <1>4, <2>1
    <2>2. CASE d # c
      <3>1. d \in Known /\ d \in Contract /\ memo'[d] = memo[d]
        BY <1>2, <2>2 DEF Known
      <3>2. Finished(memo[d], d, Known) /\ Known \subseteq L
        BY <3>1 DEF IInv
      <3> QED
        BY <3>1, <3>2, FinishedGrows
    <2> QED
      BY <2>1, <2>2
  <1>6. /\ stack' \in Seq(Frames) /\ Len(stack') = Len(stack) - 1
        /\ Len(stack) \in Nat \ {0}
        /\ \A k \in 1 .. Len(stack') : k \in 1 .. Len(stack) /\ k # Len(stack) /\ stack'[k] = stack[k]
    <2>1. stack \in Seq(Frames) /\ stack' = SubSeq(stack, 1, Len(stack) - 1)
      BY DEF IInv, Answer
    <2>2. /\ stack' \in Seq(Frames) /\ Len(stack') = Len(stack) - 1 /\ Len(stack) \in Nat \ {0}
          /\ \A k \in 1 .. (Len(stack) - 1) : stack'[k] = stack[k]
      BY <2>1, WithoutLast
    <2> QED
      BY <2>2
  <1>7. \A k \in 1 .. Len(stack') : Sane(stack'[k], L)
    <2> TAKE k \in 1 .. Len(stack')
    <2>1. Sane(stack[k], Known) /\ stack'[k] = stack[k]
      BY <1>6 DEF IInv
    <2>2. stack[k].def # c
      BY <1>6, TopSane DEF IInv
    <2>3. stack[k].def \notin L
      BY <2>1, <2>2 DEF Sane
    <2> QED
      BY <2>1, <2>3, SaneGrows
  <1>8. \A k, l \in 1 .. Len(stack') : stack'[k].def = stack'[l].def => k = l
    BY <1>6 DEF IInv
  <1>9. bases' = bases /\ panicked' = panicked
    BY DEF Answer
  <1> HIDE DEF L
  <1> QED
    BY <1>2, <1>3, <1>5, <1>6, <1>7, <1>8, <1>9 DEF IInv

(* A panic leaves no call under way. *)
LEMMA Panics ==
    ASSUME IInv, NEW why \in {"cycle", "unwrap"}, Panic(why)
    PROVE  IInv'
  <1>1. Known' = Known
    BY DEF Panic, Known
  <1>2. stack' \in Seq(Frames) /\ Len(stack') = 0
    BY DEF Panic
  <1> QED
    BY <1>1, <1>2 DEF IInv, Panic

-----------------------------------------------------------------------------
(* The invariant *)

LEMMA InitIInv == Init => IInv
  <1> SUFFICES ASSUME Init PROVE IInv
    OBVIOUS
  <1>1. Known = {}
    BY DEF Init, Known
  <1>2. stack \in Seq(Frames) /\ Len(stack) = 0
    BY DEF Init
  <1>3. memo \in [Contract -> Seq(Contract) \cup {None}]
    BY DEF Init
  <1> QED
    BY <1>1, <1>2, <1>3 DEF IInv, Init

LEMMA Step == IInv /\ [Next]_vars => IInv'
  <1> SUFFICES ASSUME IInv, [Next]_vars PROVE IInv'
    OBVIOUS
  <1>1. CASE UNCHANGED vars
    <2>1. Known' = Known
      BY <1>1 DEF Known, vars
    <2> QED
      BY <1>1, <2>1 DEF IInv, vars
  <1>2. ASSUME NEW c \in Asked, Ask(c) PROVE IInv'
    <2>1. OnStack = {} /\ c \in Contract
      BY <1>2, BaseAssumption DEF OnStack, Ask
    <2>2. stack' = Append(stack, Frame(c))
      BY <1>2 DEF Ask
    <2> QED
      BY <1>2, <2>1, <2>2, Calls DEF Ask
  <1>3. CASE SkipBase
    <2>1. stack # <<>> /\ Sane(Top, Known) /\ Top.todo # <<>> /\ Top \in Frames
      BY <1>3, TopSane DEF SkipBase, AtBase, Running
    <2> DEFINE next == [Top EXCEPT !.todo = Tail(@)]
    <2>2. Sane(next, Known) /\ next.def = Top.def
      BY <2>1, SkipSane DEF Frames
    <2>3. SetTop(next)
      BY <1>3 DEF SkipBase
    <2> HIDE DEF next
    <2> QED
      BY <1>3, <2>1, <2>2, <2>3, GoesOn DEF SkipBase
  <1>4. ASSUME NEW list \in Seq(Contract), Distinct(list), SeqRange(list) \subseteq Known,
               AtBase, GotList(list), UNCHANGED <<bases, memo, panicked>>
        PROVE  IInv'
    <2>1. stack # <<>> /\ Sane(Top, Known) /\ Top.todo # <<>> /\ Top \in Frames
      BY <1>4, TopSane DEF AtBase, Running
    <2> DEFINE next == [Top EXCEPT !.todo = Tail(@), !.lists = Append(@, list)]
    <2>2. Sane(next, Known) /\ next.def = Top.def
      BY <1>4, <2>1, GotSane DEF Frames
    <2>3. SetTop(next)
      BY <1>4 DEF GotList
    <2> HIDE DEF next
    <2> QED
      BY <1>4, <2>1, <2>2, <2>3, GoesOn
  <1>5. CASE TakeOther
    <2>1. <<>> \in Seq(Contract) /\ Distinct(<<>>) /\ SeqRange(<<>>) \subseteq Known
      BY DEF Distinct, SeqRange
    <2> QED
      BY <1>4, <1>5, <2>1 DEF TakeOther
  <1>6. CASE TakeMemo
    <2>1. NextBase \in Known
      BY <1>6 DEF TakeMemo, Known
    <2>2. Finished(memo[NextBase], NextBase, Known)
      BY <2>1 DEF IInv
    <2> QED
      BY <1>4, <1>6, <2>2 DEF TakeMemo, Finished
  <1>7. CASE Descend
    BY <1>7, Calls DEF Descend
  <1>8. CASE MeetCycle
    BY <1>8, Panics DEF MeetCycle
  <1>9. CASE MergeRound
    <2>1. stack # <<>> /\ Sane(Top, Known) /\ Top.todo = <<>> /\ Top \in Frames
      BY <1>9, TopSane DEF MergeRound, Merging, Running
    <2>2. PICK k \in There(Top) :
             /\ IsGood(Top, k)
             /\ SetTop([Top EXCEPT !.lists = Without(Top, k),
                                   !.out = Append(@, Head(Top.lists[k]))])
      BY <1>9 DEF MergeRound
    <2> DEFINE next == [Top EXCEPT !.lists = Without(Top, k),
                                   !.out = Append(@, Head(Top.lists[k]))]
    <2>3. k \in DOMAIN Top.lists
      BY DEF There
    <2>4. Sane(next, Known)
      BY <2>1, <2>2, <2>3, RoundSane
    <2>5. next.def = Top.def /\ SetTop(next)
      BY <2>1, <2>2 DEF Frames
    <2> HIDE DEF next
    <2> QED
      BY <1>9, <2>1, <2>4, <2>5, GoesOn DEF MergeRound
  <1>10. CASE MergeUnwrap
    BY <1>10, Panics DEF MergeUnwrap
  <1>11. CASE MergeStuck
    BY <1>11, Answers DEF MergeStuck, Merging, Running
  <1>12. CASE MergeDone
    BY <1>12, Answers DEF MergeDone, Merging, Running
  <1> QED
    BY <1>1, <1>2, <1>3, <1>5, <1>6, <1>7, <1>8, <1>9, <1>10, <1>11, <1>12 DEF Next, Run

THEOREM Invariance == Spec => []IInv
  BY InitIInv, Step, PTL DEF Spec

(* Types; a contract is linearized by one call at a time, and not again.    *)
THEOREM TypeCorrect == Spec => []TypeOK
  <1>1. IInv => TypeOK
    <2> SUFFICES ASSUME IInv PROVE TypeOK
      OBVIOUS
    <2>1. \A c \in Contract : bases[c] \in Seq(Base)
      BY BaseAssumption DEF IInv
    <2>2. \A k \in 1 .. Len(stack) : FrameOK(stack[k])
      BY DEF IInv, Sane, Frames, FrameOK, Known
    <2> QED
      BY <2>1, <2>2 DEF IInv, TypeOK
  <1> QED
    BY <1>1, Invariance, PTL

(* Linearizations start with their contract, name none twice, and name only *)
(* contracts that have one themselves.                                      *)
THEOREM LinearSafe == Spec => []Linear
  <1>1. IInv => Linear
    BY DEF IInv, Linear, Finished
  <1> QED
    BY <1>1, Invariance, PTL

-----------------------------------------------------------------------------
(* The order: what the steps of a call make of its frame *)

LEMMA FrameOrdered ==
    ASSUME NEW c \in Contract, bases[c] \in Seq(Base), NEW m
    PROVE  Ordered(Frame(c), bases, m)
  <1> DEFINE s == bases[c]
             todo == Frame(c).todo
  <1>1. Frame(c).def = c /\ todo = Reversed(s)
    BY DEF Frame
  <1>2. Len(s) \in Nat /\ Len(todo) = Len(s)
    BY <1>1 DEF Reversed
  <1>3. \A i \in 1 .. Len(s) : Len(s) + 1 - i \in 1 .. Len(s)
    BY <1>2
  <1>4. \A i \in 1 .. Len(s) : todo[i] = s[Len(s) + 1 - i]
    BY <1>1 DEF Reversed
  <1>5. \A i \in 1 .. Len(s) : todo[Len(s) + 1 - i] = s[i]
    <2> TAKE i \in 1 .. Len(s)
    <2> DEFINE j == Len(s) + 1 - i
    <2>1. j \in 1 .. Len(s) /\ Len(s) + 1 - j = i
      BY <1>2
    <2>2. todo[j] = s[Len(s) + 1 - j]
      BY <1>4, <2>1
    <2> QED
      BY <2>1, <2>2
  <1> SUFFICES ASSUME NEW b \in SeqRange(s) \cap Contract
               PROVE  \E i \in 1 .. Len(todo) : todo[i] = b
    BY <1>1 DEF Ordered
  <1>6. PICK i \in 1 .. Len(s) : b = s[i]
    BY DEF SeqRange
  <1> HIDE DEF todo, s
  <1> QED
    BY <1>2, <1>3, <1>5, <1>6

(* A list more, or a base less to ask about, does not disturb a merge. *)
LEMMA StillMerged ==
    ASSUME NEW frame \in Frames, NEW next \in Frames, NEW t,
           next.out = frame.out, Len(frame.lists) <= Len(next.lists),
           \A k \in 1 .. Len(frame.lists) : next.lists[k] = frame.lists[k],
           Merged(frame, t)
    PROVE  Merged(next, t)
  <1>1. \A k \in 1 .. Len(frame.lists) : k \in 1 .. Len(next.lists)
    BY DEF Frames
  <1>2. PICK l \in 1 .. Len(frame.lists) : \E n \in 0 .. Len(t) :
          /\ Remains(frame.lists[l], t, n)
          /\ \A i \in 1 .. n : \E j \in 1 .. Len(frame.out) : t[i] = frame.out[j]
    BY DEF Merged
  <1>3. l \in 1 .. Len(next.lists) /\ next.lists[l] = frame.lists[l]
    BY <1>1
  <1>4. \E n \in 0 .. Len(t) :
          /\ Remains(next.lists[l], t, n)
          /\ \A i \in 1 .. n : \E j \in 1 .. Len(next.out) : t[i] = next.out[j]
    <2>1. PICK n \in 0 .. Len(t) :
            /\ Remains(frame.lists[l], t, n)
            /\ \A i \in 1 .. n : \E j \in 1 .. Len(frame.out) : t[i] = frame.out[j]
      BY <1>2
    <2>2. Remains(next.lists[l], t, n)
      BY <1>3, <2>1
    <2>3. \A i \in 1 .. n : \E j \in 1 .. Len(next.out) : t[i] = next.out[j]
      BY <2>1
    <2> QED
      BY <2>2, <2>3
  <1>5. Keeps(next.out, t)
    BY DEF Merged
  <1> QED
    BY <1>3, <1>4, <1>5 DEF Merged

LEMMA StillOrdered ==
    ASSUME NEW h, NEW m, NEW frame \in Frames, NEW next \in Frames,
           Ordered(frame, h, m), frame.todo # <<>>,
           next.def = frame.def, next.out = frame.out, next.todo = Tail(frame.todo),
           Len(frame.lists) <= Len(next.lists),
           \A k \in 1 .. Len(frame.lists) : next.lists[k] = frame.lists[k],
           Head(frame.todo) \in Contract => /\ m[Head(frame.todo)] # None
                                            /\ Merged(next, m[Head(frame.todo)])
    PROVE  Ordered(next, h, m)
  <1> SUFFICES ASSUME NEW b \in SeqRange(h[frame.def]) \cap Contract
               PROVE  \/ \E i \in 1 .. Len(next.todo) : next.todo[i] = b
                      \/ m[b] # None /\ Merged(next, m[b])
    BY DEF Ordered
  <1>1. CASE m[b] # None /\ Merged(frame, m[b])
    BY <1>1, StillMerged
  <1>2. CASE \E i \in 1 .. Len(frame.todo) : frame.todo[i] = b
    <2>1. PICK i \in 1 .. Len(frame.todo) : frame.todo[i] = b
      BY <1>2
    <2>2. /\ Len(frame.todo) \in Nat \ {0} /\ Head(frame.todo) = frame.todo[1]
          /\ Len(next.todo) = Len(frame.todo) - 1
          /\ \A j \in 1 .. Len(next.todo) : next.todo[j] = frame.todo[j + 1]
      BY HeadTail DEF Frames
    <2>3. CASE i = 1
      BY <2>1, <2>2, <2>3
    <2>4. CASE i # 1
      <3>1. i - 1 \in 1 .. Len(next.todo) /\ i - 1 + 1 = i
        BY <2>2, <2>4
      <3>2. next.todo[i - 1] = b
        BY <2>1, <2>2, <3>1
      <3> QED
        BY <3>1, <3>2
    <2> QED
      BY <2>3, <2>4
  <1> QED
    BY <1>1, <1>2 DEF Ordered

(* The memo of a base is added as a list, none of which is in out yet. *)
LEMMA NewMerged ==
    ASSUME NEW K, NEW frame, Sane(frame, K), frame.todo # <<>>,
           NEW t \in Seq(Contract), SeqRange(t) \subseteq K,
           NEW next \in Frames, next.out = frame.out,
           Len(next.lists) \in Nat \ {0}, next.lists[Len(next.lists)] = t
    PROVE  Merged(next, t)
  <1>1. Remains(t, t, 0) /\ 0 \in 0 .. Len(t)
    BY DEF Remains
  <1>2. \A i \in 1 .. 0 : FALSE
    OBVIOUS
  <1>3. \A i \in 1 .. Len(next.out) : \A k \in 1 .. Len(t) : next.out[i] # t[k]
    BY DEF Sane, SeqRange
  <1>4. Keeps(next.out, t)
    BY <1>3 DEF Keeps
  <1>5. Len(next.lists) \in 1 .. Len(next.lists)
    OBVIOUS
  <1> QED
    BY <1>1, <1>2, <1>4, <1>5, Zenon DEF Merged

(* The two ways a list fares in a round. *)
LEMMA WithoutCases ==
    ASSUME NEW frame \in Frames, NEW k \in DOMAIN frame.lists, IsGood(frame, k),
           NEW l \in 1 .. Len(frame.lists)
    PROVE  \/ /\ frame.lists[l] # <<>> /\ frame.lists[l][1] = Head(frame.lists[k])
              /\ Without(frame, k)[l] = Tail(frame.lists[l])
           \/ /\ Without(frame, k)[l] = frame.lists[l]
              /\ \A i \in 1 .. Len(frame.lists[l]) : frame.lists[l][i] # Head(frame.lists[k])
  <1> DEFINE list == frame.lists[l]
             head == Head(frame.lists[k])
  <1>1. list \in Seq(Contract) /\ l \in DOMAIN frame.lists
    BY DEF Frames
  <1>2. list # <<>> => Head(list) = list[1]
    BY <1>1
  <1>3. Without(frame, k)[l] = IF list # <<>> /\ Head(list) = head THEN Tail(list) ELSE list
    BY <1>1 DEF Without
  <1>4. \A i \in 2 .. Len(list) : list[i] # head
    BY <1>1 DEF IsGood
  <1>5. list # <<>> /\ Head(list) # head => \A i \in 1 .. Len(list) : list[i] # head
    <2>1. \A i \in 1 .. Len(list) : i = 1 \/ i \in 2 .. Len(list)
      BY <1>1
    <2> HIDE DEF list, head
    <2> QED
      BY <1>2, <1>4, <2>1
  <1>6. list = <<>> => \A i \in 1 .. Len(list) : list[i] # head
    OBVIOUS
  <1> QED
    BY <1>2, <1>3, <1>5, <1>6

(* A round keeps the order of every linearization merged: the new last of   *)
(* out comes after all that was taken over from it, and before the rest.    *)
LEMMA RoundMerged ==
    ASSUME NEW K, NEW frame, Sane(frame, K), frame.todo = <<>>,
           NEW k \in DOMAIN frame.lists, IsGood(frame, k),
           NEW t \in Seq(Contract), Distinct(t), Merged(frame, t)
    PROVE  Merged([frame EXCEPT !.lists = Without(frame, k),
                                !.out = Append(@, Head(frame.lists[k]))], t)
  <1> DEFINE lists == frame.lists
             out == frame.out
             head == Head(lists[k])
             next == [frame EXCEPT !.lists = Without(frame, k), !.out = Append(@, head)]
             rest == next.lists
             more == next.out
  <1>1. /\ frame \in Frames /\ lists \in Seq(Seq(Contract)) /\ out \in Seq(Contract)
        /\ Len(lists) \in Nat /\ Len(out) \in Nat /\ Len(t) \in Nat
    BY DEF Sane, Frames
  <1>2. lists[k] # <<>> /\ lists[k] \in Seq(Contract) /\ head \in Contract /\ head = lists[k][1]
    <2>1. lists[k] # <<>> /\ lists[k] \in Seq(Contract)
      BY <1>1 DEF IsGood
    <2> QED
      BY <2>1, HeadTail
  <1>3. \A j \in 1 .. Len(out) : head # out[j]
    <2>1. k \in 1 .. Len(lists) /\ 1 \in 1 .. Len(lists[k])
      BY <1>1, <1>2
    <2> QED
      BY <1>2, <2>1 DEF Sane, Mergeable
  <1>4. Sane(next, K)
    BY RoundSane
  <1>5. rest = Without(frame, k) /\ more = Append(out, head) /\ Len(rest) = Len(lists)
    BY <1>1 DEF Frames, Without
  <1>6. /\ Len(more) = Len(out) + 1 /\ more[Len(out) + 1] = head
        /\ \A i \in 1 .. Len(out) : more[i] = out[i]
    BY <1>1, <1>2, <1>5, Appended
  <1>7. PICK l \in 1 .. Len(lists), n \in 0 .. Len(t) :
           /\ Remains(lists[l], t, n)
           /\ \A i \in 1 .. n : \E j \in 1 .. Len(out) : t[i] = out[j]
    BY DEF Merged
  <1>8. Keeps(out, t)
    BY DEF Merged
  <1>9. \/ lists[l] # <<>> /\ lists[l][1] = head /\ rest[l] = Tail(lists[l])
        \/ rest[l] = lists[l] /\ \A i \in 1 .. Len(lists[l]) : lists[l][i] # head
    BY <1>1, <1>5, <1>7, WithoutCases
  <1>10. lists[l] \in Seq(Contract)
    BY <1>1
  <1>11. Mergeable(rest[l], more, K) /\ l \in 1 .. Len(rest)
    BY <1>4, <1>5 DEF Sane
  <1> SUFFICES Merged(next, t)
    OBVIOUS
  <1> HIDE DEF next, rest, more, head, lists, out
  <1>12. \A i \in 1 .. Len(more) : i \in 1 .. Len(out) \/ i = Len(out) + 1
    BY <1>1, <1>6
  <1>13. ASSUME NEW i \in 1 .. n PROVE \E j \in 1 .. Len(more) : t[i] = more[j]
    <2>1. PICK j \in 1 .. Len(out) : t[i] = out[j]
      BY <1>7
    <2>2. j \in 1 .. Len(more) /\ more[j] = out[j]
      BY <1>1, <1>6
    <2> QED
      BY <2>1, <2>2
  <1>14. ASSUME NEW m \in 0 .. Len(t), Remains(rest[l], t, m), Keeps(more, t),
                \A i \in 1 .. m : \E j \in 1 .. Len(more) : t[i] = more[j]
         PROVE  Merged(next, t)
    <2>1. \E m1 \in 0 .. Len(t) :
             /\ Remains(rest[l], t, m1)
             /\ \A i \in 1 .. m1 : \E j \in 1 .. Len(more) : t[i] = more[j]
      BY <1>14
    <2>2. \E l1 \in 1 .. Len(rest) : \E m1 \in 0 .. Len(t) :
             /\ Remains(rest[l1], t, m1)
             /\ \A i \in 1 .. m1 : \E j \in 1 .. Len(more) : t[i] = more[j]
      BY <1>11, <2>1
    <2> QED
      BY <1>14, <2>2 DEF Merged, rest, more
  <1>15. CASE lists[l] # <<>> /\ lists[l][1] = head /\ rest[l] = Tail(lists[l])
    <2>1. /\ Len(lists[l]) \in Nat \ {0} /\ Len(rest[l]) = Len(lists[l]) - 1
          /\ \A i \in 1 .. Len(rest[l]) : rest[l][i] = lists[l][i + 1]
      BY <1>10, <1>15, HeadTail
    <2>2. n + 1 \in 1 .. Len(t) /\ n + 1 \in 0 .. Len(t) /\ n \in Nat
      BY <1>1, <1>7, <2>1 DEF Remains
    <2>3. t[n + 1] = head
      <3>1. 1 \in 1 .. Len(lists[l])
        BY <2>1
      <3>2. lists[l][1] = t[n + 1]
        BY <1>7, <3>1 DEF Remains
      <3> QED
        BY <1>15, <3>2
    <2>4. Remains(rest[l], t, n + 1)
      <3>1. Len(rest[l]) = Len(t) - (n + 1)
        BY <1>1, <1>7, <2>1, <2>2 DEF Remains
      <3>2. ASSUME NEW i \in 1 .. Len(rest[l]) PROVE rest[l][i] = t[n + 1 + i]
        <4>1. i + 1 \in 1 .. Len(lists[l]) /\ n + (i + 1) = n + 1 + i
          BY <2>1, <2>2
        <4>2. lists[l][i + 1] = t[n + (i + 1)]
          BY <1>7, <4>1 DEF Remains
        <4> QED
          BY <2>1, <4>1, <4>2
      <3> QED
        BY <3>1, <3>2 DEF Remains
    <2>5. \A i \in 1 .. n + 1 : \E j \in 1 .. Len(more) : t[i] = more[j]
      <3> TAKE i \in 1 .. n + 1
      <3>1. CASE i \in 1 .. n
        BY <1>13, <3>1
      <3>2. CASE i = n + 1
        <4>1. Len(out) + 1 \in 1 .. Len(more)
          BY <1>1, <1>6
        <4> QED
          BY <1>6, <2>3, <3>2, <4>1
      <3> QED
        BY <2>2, <3>1, <3>2
    <2>6. Keeps(more, t)
      <3> SUFFICES ASSUME NEW i \in 1 .. Len(more), NEW j \in 1 .. Len(more),
                          NEW a \in 1 .. Len(t), NEW b \in 1 .. Len(t),
                          more[i] = t[a], more[j] = t[b], a < b
                   PROVE  i < j
        BY DEF Keeps
      <3>1. CASE i \in 1 .. Len(out) /\ j \in 1 .. Len(out)
        BY <1>6, <1>8, <3>1 DEF Keeps
      <3>2. CASE i \in 1 .. Len(out) /\ j = Len(out) + 1
        BY <1>1, <3>2
      <3>3. CASE i = Len(out) + 1
        <4>1. a = n + 1
          BY <1>6, <2>2, <2>3, <3>3 DEF Distinct
        <4>2. b - (n + 1) \in 1 .. Len(rest[l]) /\ n + 1 + (b - (n + 1)) = b
          BY <1>1, <2>2, <2>4, <4>1 DEF Remains
        <4>3. rest[l][b - (n + 1)] = t[b]
          BY <2>4, <4>2 DEF Remains
        <4> QED
          BY <1>11, <4>2, <4>3 DEF Mergeable
      <3> QED
        BY <1>12, <3>1, <3>2, <3>3
    <2> QED
      BY <1>14, <2>2, <2>4, <2>5, <2>6
  <1>16. CASE rest[l] = lists[l] /\ \A i \in 1 .. Len(lists[l]) : lists[l][i] # head
    <2>1. ASSUME NEW a \in 1 .. Len(t) PROVE t[a] # head
      <3>1. CASE a \in 1 .. n
        BY <1>3, <1>7, <3>1
      <3>2. CASE a \notin 1 .. n
        <4>1. a - n \in 1 .. Len(lists[l]) /\ n + (a - n) = a
          BY <1>1, <1>7, <3>2 DEF Remains
        <4>2. lists[l][a - n] = t[a]
          BY <1>7, <4>1 DEF Remains
        <4> QED
          BY <1>16, <4>1, <4>2
      <3> QED
        BY <3>1, <3>2
    <2>2. Keeps(more, t)
      <3> SUFFICES ASSUME NEW i \in 1 .. Len(more), NEW j \in 1 .. Len(more),
                          NEW a \in 1 .. Len(t), NEW b \in 1 .. Len(t),
                          more[i] = t[a], more[j] = t[b], a < b
                   PROVE  i < j
        BY DEF Keeps
      <3>1. i \in 1 .. Len(out) /\ j \in 1 .. Len(out)
        BY <1>6, <1>12, <2>1
      <3> QED
        BY <1>6, <1>8, <3>1 DEF Keeps
    <2>3. Remains(rest[l], t, n)
      BY <1>7, <1>16
    <2> QED
      BY <1>13, <1>14, <2>2, <2>3
  <1> QED
    BY <1>9, <1>15, <1>16

-----------------------------------------------------------------------------
(* The order: what the steps make of the stack *)

LEMMA GoesOnOrdered ==
    ASSUME OInv, stack # <<>>, NEW frame, Sane(frame, Known), Ordered(frame, bases, memo),
           frame.def = Top.def, SetTop(frame), UNCHANGED <<bases, memo, panicked>>
    PROVE  OInv'
  <1>1. IInv'
    BY GoesOn DEF OInv
  <1>2. /\ Len(stack') = Len(stack)
        /\ \A k \in 1 .. Len(stack) :
              stack'[k] = IF k = Len(stack) THEN frame ELSE stack[k]
    BY DEF IInv, OInv, SetTop
  <1>3. \A k \in 1 .. Len(stack') : Ordered(stack'[k], bases, memo)
    BY <1>2 DEF OInv
  <1> QED
    BY <1>1, <1>3 DEF OInv

LEMMA CallsOrdered ==
    ASSUME OInv, NEW c \in Contract \ OnStack, memo[c] = None,
           stack' = Append(stack, Frame(c)), UNCHANGED <<bases, memo, panicked>>
    PROVE  OInv'
  <1>1. IInv'
    BY Calls DEF OInv
  <1>2. Frame(c) \in Frames /\ Ordered(Frame(c), bases, memo)
    <2>1. bases[c] \in Seq(Base)
      BY BaseAssumption DEF OInv, IInv
    <2>2. Sane(Frame(c), {})
      BY <2>1, FrameSane
    <2> QED
      BY <2>1, <2>2, FrameOrdered DEF Sane
  <1>3. /\ Len(stack') = Len(stack) + 1 /\ Len(stack) \in Nat
        /\ \A k \in 1 .. Len(stack) : stack'[k] = stack[k]
        /\ stack'[Len(stack) + 1] = Frame(c)
    BY <1>2, Appended DEF IInv, OInv
  <1>4. \A k \in 1 .. Len(stack') : k \in 1 .. Len(stack) \/ k = Len(stack) + 1
    BY <1>3
  <1>5. \A k \in 1 .. Len(stack') : Ordered(stack'[k], bases, memo)
    BY <1>2, <1>3, <1>4 DEF OInv
  <1> QED
    BY <1>1, <1>5 DEF OInv

(* With no base left to ask about, the order of every base has been kept.   *)
LEMMA AnswersOrdered ==
    ASSUME OInv, stack # <<>>, Top.todo = <<>>, Answer
    PROVE  OInv'
  <1> DEFINE c == Top.def
  <1>1. IInv' /\ bases' = bases
    BY Answers DEF OInv, Answer
  <1>2. c \in Contract /\ memo[c] = None /\ Ordered(Top, bases, memo)
    BY TopSane DEF OInv, Sane, Known
  <1>3. \A d \in Contract : memo'[d] = IF d = c THEN Top.out ELSE memo[d]
    BY <1>2 DEF OInv, IInv, Answer
  <1>4. \A b \in SeqRange(bases[c]) \cap Contract : memo[b] # None /\ Keeps(Top.out, memo[b])
    <2>1. \A i \in 1 .. Len(Top.todo) : FALSE
      OBVIOUS
    <2> QED
      BY <1>2, <2>1 DEF Ordered, Merged
  <1>5. /\ Len(stack') = Len(stack) - 1 /\ Len(stack) \in Nat
        /\ \A k \in 1 .. (Len(stack) - 1) : stack'[k] = stack[k]
    BY WithoutLast DEF OInv, IInv, Answer
  <1> HIDE DEF c
  <1>6. \A k \in 1 .. Len(stack') : Ordered(stack'[k], bases, memo')
    <2> TAKE k \in 1 .. Len(stack')
    <2>1. Ordered(stack[k], bases, memo) /\ stack'[k] = stack[k]
      BY <1>5 DEF OInv
    <2> QED
      BY <1>2, <1>3, <2>1 DEF Ordered
  <1>7. InOrder(bases, memo')
    <2> SUFFICES ASSUME NEW d \in Contract, memo'[d] # None,
                        NEW b \in SeqRange(bases[d]) \cap Contract
                 PROVE  memo'[b] # None /\ Keeps(memo'[d], memo'[b])
      BY DEF InOrder
    <2>1. CASE d = c
      BY <1>2, <1>3, <1>4, <2>1
    <2>2. CASE d # c
      BY <1>2, <1>3, <2>2 DEF OInv, InOrder
    <2> QED
      BY <2>1, <2>2
  <1> QED
    BY <1>1, <1>6, <1>7 DEF OInv

LEMMA PanicsOrdered ==
    ASSUME OInv, NEW why \in {"cycle", "unwrap"}, Panic(why)
    PROVE  OInv'
  <1>1. IInv' /\ Len(stack') = 0 /\ bases' = bases /\ memo' = memo
    BY Panics DEF OInv, Panic
  <1> QED
    BY <1>1 DEF OInv

LEMMA InitOInv == Init => OInv
  <1> SUFFICES ASSUME Init PROVE OInv
    OBVIOUS
  <1>1. Len(stack) = 0 /\ \A c \in Contract : memo[c] = None
    BY DEF Init
  <1> QED
    BY <1>1, InitIInv DEF OInv, InOrder

LEMMA StepOrdered == OInv /\ [Next]_vars => OInv'
  <1> SUFFICES ASSUME OInv, [Next]_vars PROVE OInv'
    OBVIOUS
  <1>1. IInv
    BY DEF OInv
  <1>2. CASE UNCHANGED vars
    <2>1. IInv'
      BY <1>1, <1>2, Step
    <2> QED
      BY <1>2, <2>1 DEF OInv, vars
  <1>3. ASSUME NEW c \in Asked, Ask(c) PROVE OInv'
    <2>1. OnStack = {} /\ c \in Contract
      BY <1>3, BaseAssumption DEF OnStack, Ask
    <2>2. stack' = Append(stack, Frame(c))
      BY <1>3 DEF Ask
    <2> QED
      BY <1>3, <2>1, <2>2, CallsOrdered DEF Ask
  <1>4. AtBase => /\ stack # <<>> /\ Top \in Frames /\ Sane(Top, Known) /\ Top.todo # <<>>
                  /\ Ordered(Top, bases, memo)
    BY <1>1, TopSane DEF AtBase, Running, OInv
  <1>5. CASE SkipBase
    <2> DEFINE next == [Top EXCEPT !.todo = Tail(@)]
    <2>1. AtBase /\ NextBase = Unresolved /\ SetTop(next)
      BY <1>5 DEF SkipBase
    <2>2. Sane(next, Known) /\ next \in Frames
      BY <1>4, <2>1, SkipSane DEF Sane
    <2>3. /\ next.def = Top.def /\ next.out = Top.out /\ next.todo = Tail(Top.todo)
          /\ next.lists = Top.lists
      BY <1>4, <2>1 DEF Frames
    <2>4. Len(Top.lists) <= Len(next.lists)
      BY <1>4, <2>1, <2>3 DEF Frames
    <2>5. Head(Top.todo) \notin Contract
      BY <2>1, BaseAssumption DEF NextBase
    <2> HIDE DEF next
    <2>6. Ordered(next, bases, memo)
      BY <1>4, <2>1, <2>2, <2>3, <2>4, <2>5, StillOrdered
    <2> QED
      BY <1>4, <1>5, <2>1, <2>2, <2>3, <2>6, GoesOnOrdered DEF SkipBase
  <1>6. ASSUME NEW list \in Seq(Contract), Distinct(list), SeqRange(list) \subseteq Known,
               AtBase, GotList(list), UNCHANGED <<bases, memo, panicked>>,
               NextBase \in Contract => memo[NextBase] # None /\ list = memo[NextBase]
        PROVE  OInv'
    <2> DEFINE next == [Top EXCEPT !.todo = Tail(@), !.lists = Append(@, list)]
    <2>1. SetTop(next)
      BY <1>6 DEF GotList
    <2>2. Sane(next, Known) /\ next \in Frames
      <3>1. Sane(next, Known)
        BY <1>4, <1>6, GotSane
      <3> QED
        BY <3>1 DEF Sane
    <2>3. /\ next.def = Top.def /\ next.out = Top.out /\ next.todo = Tail(Top.todo)
          /\ next.lists = Append(Top.lists, list)
      BY <1>4, <1>6 DEF Frames
    <2>4. /\ Len(next.lists) = Len(Top.lists) + 1 /\ Len(Top.lists) \in Nat
          /\ \A k \in 1 .. Len(Top.lists) : next.lists[k] = Top.lists[k]
          /\ next.lists[Len(Top.lists) + 1] = list
      BY <1>4, <1>6, <2>3, Appended DEF Frames
    <2> HIDE DEF next
    <2>5. /\ Len(next.lists) \in Nat \ {0} /\ next.lists[Len(next.lists)] = list
          /\ Len(Top.lists) <= Len(next.lists)
      BY <2>4
    <2>6. Merged(next, list)
      BY <1>4, <1>6, <2>2, <2>3, <2>5, NewMerged
    <2>7. Head(Top.todo) \in Contract =>
             memo[Head(Top.todo)] # None /\ Merged(next, memo[Head(Top.todo)])
      BY <1>6, <2>6 DEF NextBase
    <2>8. Ordered(next, bases, memo)
      BY <1>4, <1>6, <2>2, <2>3, <2>4, <2>5, <2>7, StillOrdered
    <2> QED
      BY <1>4, <1>6, <2>1, <2>2, <2>3, <2>8, GoesOnOrdered
  <1>7. CASE TakeOther
    <2>1. <<>> \in Seq(Contract) /\ Distinct(<<>>) /\ SeqRange(<<>>) \subseteq Known
      BY DEF Distinct, SeqRange
    <2>2. NextBase \notin Contract
      BY <1>7, BaseAssumption DEF TakeOther
    <2> QED
      BY <1>6, <1>7, <2>1, <2>2 DEF TakeOther
  <1>8. CASE TakeMemo
    <2>1. NextBase \in Known /\ memo[NextBase] # None
      BY <1>8 DEF TakeMemo, Known
    <2>2. Finished(memo[NextBase], NextBase, Known)
      BY <1>1, <2>1 DEF IInv
    <2> QED
      BY <1>6, <1>8, <2>1, <2>2 DEF TakeMemo, Finished
  <1>9. CASE Descend
    BY <1>9, CallsOrdered DEF Descend
  <1>10. CASE MeetCycle
    BY <1>10, PanicsOrdered DEF MeetCycle
  <1>11. CASE MergeRound
    <2>1. stack # <<>> /\ Sane(Top, Known) /\ Top.todo = <<>> /\ Top \in Frames
      BY <1>1, <1>11, TopSane DEF MergeRound, Merging, Running
    <2>2. PICK k \in There(Top) :
             /\ IsGood(Top, k)
             /\ SetTop([Top EXCEPT !.lists = Without(Top, k),
                                   !.out = Append(@, Head(Top.lists[k]))])
      BY <1>11 DEF MergeRound
    <2> DEFINE next == [Top EXCEPT !.lists = Without(Top, k),
                                   !.out = Append(@, Head(Top.lists[k]))]
    <2>3. k \in DOMAIN Top.lists
      BY DEF There
    <2>4. Sane(next, Known)
      BY <2>1, <2>2, <2>3, RoundSane
    <2>5. next.def = Top.def /\ next.todo = Top.todo /\ SetTop(next)
      BY <2>1, <2>2 DEF Frames
    <2>6. Ordered(Top, bases, memo)
      BY <1>1, <2>1, TopSane DEF OInv
    <2>7. ASSUME NEW b \in SeqRange(bases[Top.def]) \cap Contract
          PROVE  memo[b] # None /\ Merged(next, memo[b])
      <3>1. memo[b] # None /\ Merged(Top, memo[b])
        BY <2>1, <2>6 DEF Ordered
      <3>2. memo[b] \in Seq(Contract) /\ Distinct(memo[b])
        BY <1>1, <3>1 DEF IInv, Known, Finished
      <3> QED
        BY <2>1, <2>2, <2>3, <3>1, <3>2, RoundMerged
    <2> HIDE DEF next
    <2>8. Ordered(next, bases, memo)
      BY <2>5, <2>7 DEF Ordered
    <2> QED
      BY <1>11, <2>1, <2>4, <2>5, <2>8, GoesOnOrdered DEF MergeRound
  <1>12. CASE MergeUnwrap
    BY <1>12, PanicsOrdered DEF MergeUnwrap
  <1>13. CASE MergeStuck
    BY <1>13, AnswersOrdered DEF MergeStuck, Merging, Running
  <1>14. CASE MergeDone
    BY <1>14, AnswersOrdered DEF MergeDone, Merging, Running
  <1> QED
    BY <1>2, <1>3, <1>5, <1>7, <1>8, <1>9, <1>10, <1>11, <1>12, <1>13, <1>14 DEF Next, Run

(* A contract overrides in the order its bases do, whether the merge was    *)
(* able to finish or gave up.                                               *)
THEOREM OrderSafe == Spec => []KeepsOrder
  <1>1. Spec => []OInv
    BY InitOInv, StepOrdered, PTL DEF Spec
  <1>2. OInv => KeepsOrder
    <2> SUFFICES ASSUME OInv, NEW c \in Known, NEW b \in BasesOf(c)
                 PROVE  Keeps(memo[c], memo[b])
      BY DEF KeepsOrder
    <2> QED
      BY DEF OInv, InOrder, Known, BasesOf
  <1> QED
    BY <1>1, <1>2, PTL

-----------------------------------------------------------------------------
(* Panics *)

(* Ancestors, by the inheritance lists h.                                    *)
AncestorsIn(h, c) == {d \in Contract : \A S \in SUBSET Contract :
    (SeqRange(h[c]) \cap Contract \subseteq S
     /\ \A e \in S : SeqRange(h[e]) \cap Contract \subseteq S) => d \in S}

LEMMA BaseOfAncestor ==
    ASSUME NEW h, NEW c, NEW d \in Contract, d = c \/ d \in AncestorsIn(h, c),
           NEW e \in SeqRange(h[d]) \cap Contract
    PROVE  e \in AncestorsIn(h, c)
  <1> SUFFICES ASSUME NEW S \in SUBSET Contract, SeqRange(h[c]) \cap Contract \subseteq S,
                      \A x \in S : SeqRange(h[x]) \cap Contract \subseteq S
               PROVE  e \in S
    BY DEF AncestorsIn
  <1>1. d \in AncestorsIn(h, c) => d \in S
    BY DEF AncestorsIn
  <1> QED
    BY <1>1

(* PanicsNarrow, by the inheritance lists h.                                 *)
Placed(why, h) ==
    /\ why = "cycle" => \E c \in Contract : c \in AncestorsIn(h, c)
    /\ why = "unwrap" => \E c \in Contract : SeqRange(h[c]) \cap Other # {}

(* What a call has still to ask about is in the contract's inheritance list *)
(* and an empty list in the first round is the answer of what is no         *)
(* contract.  (h is the inheritance lists.)                                 *)
Listed(frame, h) ==
    /\ \A i \in 1 .. Len(frame.todo) : frame.todo[i] \in SeqRange(h[frame.def])
    /\ \A l \in 1 .. Len(frame.lists) :
          frame.lists[l] = <<>> /\ Len(frame.out) = 1 => SeqRange(h[frame.def]) \cap Other # {}

(* A call under way is of a contract the calls around it inherit from.      *)
PInv ==
    /\ IInv
    /\ \A c \in Known : memo[c] # <<>>
    /\ \A k \in 1 .. Len(stack) : Listed(stack[k], bases)
    /\ \A j, k \in 1 .. Len(stack) : j < k => stack[k].def \in AncestorsIn(bases, stack[j].def)
    /\ Placed(panicked, bases)

LEMMA FrameListed ==
    ASSUME NEW c \in Contract, bases[c] \in Seq(Base)
    PROVE  Listed(Frame(c), bases)
  <1> DEFINE s == bases[c]
             todo == Frame(c).todo
  <1>1. Frame(c).def = c /\ todo = Reversed(s) /\ Len(Frame(c).lists) = 0
    BY DEF Frame
  <1>2. Len(s) \in Nat /\ Len(todo) = Len(s)
    BY <1>1 DEF Reversed
  <1>3. \A i \in 1 .. Len(s) : Len(s) + 1 - i \in 1 .. Len(s) /\ todo[i] = s[Len(s) + 1 - i]
    BY <1>1, <1>2 DEF Reversed
  <1> HIDE DEF s, todo
  <1>4. \A i \in 1 .. Len(todo) : todo[i] \in SeqRange(s)
    BY <1>2, <1>3 DEF SeqRange
  <1> QED
    BY <1>1, <1>4 DEF Listed, s, todo

LEMMA TailListed ==
    ASSUME NEW h, NEW frame \in Frames, NEW next \in Frames, Listed(frame, h), frame.todo # <<>>,
           next.def = frame.def, next.out = frame.out, next.todo = Tail(frame.todo),
           \/ next.lists = frame.lists
           \/ \E list \in Seq(Contract) : /\ next.lists = Append(frame.lists, list)
                                          /\ list # <<>> \/ Head(frame.todo) \in Other
    PROVE  Listed(next, h)
  <1>1. /\ Len(frame.todo) \in Nat \ {0} /\ Head(frame.todo) = frame.todo[1]
        /\ Len(next.todo) = Len(frame.todo) - 1
        /\ \A j \in 1 .. Len(next.todo) : next.todo[j] = frame.todo[j + 1]
    BY HeadTail DEF Frames
  <1>2. \A i \in 1 .. Len(next.todo) : next.todo[i] \in SeqRange(h[next.def])
    <2>1. \A i \in 1 .. Len(next.todo) : i + 1 \in 1 .. Len(frame.todo)
      BY <1>1
    <2> QED
      BY <1>1, <2>1 DEF Listed
  <1>3. CASE next.lists = frame.lists
    BY <1>2, <1>3 DEF Listed
  <1>4. ASSUME NEW list \in Seq(Contract), next.lists = Append(frame.lists, list),
               list # <<>> \/ Head(frame.todo) \in Other,
               NEW l \in 1 .. Len(next.lists), next.lists[l] = <<>>, Len(next.out) = 1
        PROVE  SeqRange(h[next.def]) \cap Other # {}
    <2>1. /\ Len(next.lists) = Len(frame.lists) + 1 /\ Len(frame.lists) \in Nat
          /\ \A k \in 1 .. Len(frame.lists) : next.lists[k] = frame.lists[k]
          /\ next.lists[Len(frame.lists) + 1] = list
      <3>1. frame.lists \in Seq(Seq(Contract))
        BY DEF Frames
      <3> QED
        BY <1>4, <3>1, Appended
    <2>2. CASE l \in 1 .. Len(frame.lists)
      BY <1>4, <2>1, <2>2 DEF Listed
    <2>3. CASE l = Len(frame.lists) + 1
      <3>1. Head(frame.todo) \in Other
        BY <1>4, <2>1, <2>3
      <3>2. Head(frame.todo) \in SeqRange(h[frame.def])
        BY <1>1 DEF Listed
      <3> QED
        BY <3>1, <3>2
    <2> QED
      BY <2>1, <2>2, <2>3
  <1> QED
    BY <1>2, <1>3, <1>4 DEF Listed

LEMMA GoesOnListed ==
    ASSUME PInv, stack # <<>>, NEW frame, Sane(frame, Known), Listed(frame, bases),
           frame.def = Top.def, SetTop(frame), UNCHANGED <<bases, memo, panicked>>
    PROVE  PInv'
  <1>1. IInv'
    BY GoesOn DEF PInv
  <1>2. /\ Len(stack') = Len(stack)
        /\ \A k \in 1 .. Len(stack) :
              stack'[k] = IF k = Len(stack) THEN frame ELSE stack[k]
    BY DEF IInv, PInv, SetTop
  <1>3. \A k \in 1 .. Len(stack') : Listed(stack'[k], bases) /\ stack'[k].def = stack[k].def
    BY <1>2 DEF PInv, Top
  <1>4. Len(stack) \in Nat
    BY DEF PInv, IInv
  <1>5. \A j, k \in 1 .. Len(stack') : j < k => stack'[k].def \in AncestorsIn(bases, stack'[j].def)
    BY <1>2, <1>3 DEF PInv
  <1>6. \A c \in Known' : memo'[c] # <<>>
    BY DEF PInv, Known
  <1> QED
    BY <1>1, <1>3, <1>5, <1>6 DEF PInv

LEMMA CallsListed ==
    ASSUME PInv, NEW c \in Contract \ OnStack, memo[c] = None,
           stack # <<>> => c \in BasesOf(Top.def),
           stack' = Append(stack, Frame(c)), UNCHANGED <<bases, memo, panicked>>
    PROVE  PInv'
  <1>1. IInv'
    BY Calls DEF PInv
  <1>2. Frame(c) \in Frames /\ Listed(Frame(c), bases) /\ Frame(c).def = c
    <2>1. bases[c] \in Seq(Base)
      BY BaseAssumption DEF PInv, IInv
    <2>2. Sane(Frame(c), {})
      BY <2>1, FrameSane
    <2> QED
      BY <2>1, <2>2, FrameListed DEF Sane, Frame
  <1>3. /\ Len(stack') = Len(stack) + 1 /\ Len(stack) \in Nat
        /\ \A k \in 1 .. Len(stack) : stack'[k] = stack[k]
        /\ stack'[Len(stack) + 1] = Frame(c)
    BY <1>2, Appended DEF IInv, PInv
  <1>4. \A k \in 1 .. Len(stack') : k \in 1 .. Len(stack) \/ k = Len(stack) + 1
    BY <1>3
  <1>5. \A k \in 1 .. Len(stack') : Listed(stack'[k], bases)
    BY <1>2, <1>3, <1>4 DEF PInv
  <1>6. \A j \in 1 .. Len(stack) : c \in AncestorsIn(bases, stack[j].def)
    <2> TAKE j \in 1 .. Len(stack)
    <2>1. stack # <<>> /\ Len(stack) \in 1 .. Len(stack) /\ Top = stack[Len(stack)]
      BY <1>3 DEF Top
    <2>2. Top.def \in Contract
      BY <2>1, TopSane DEF PInv, Sane
    <2>3. Top.def = stack[j].def \/ Top.def \in AncestorsIn(bases, stack[j].def)
      BY <1>3, <2>1 DEF PInv
    <2> QED
      BY <2>1, <2>2, <2>3, BaseOfAncestor DEF BasesOf
  <1>7. \A j, k \in 1 .. Len(stack') : j < k => stack'[k].def \in AncestorsIn(bases, stack'[j].def)
    <2> SUFFICES ASSUME NEW j \in 1 .. Len(stack'), NEW k \in 1 .. Len(stack'), j < k
                 PROVE  stack'[k].def \in AncestorsIn(bases, stack'[j].def)
      OBVIOUS
    <2>1. j \in 1 .. Len(stack) /\ stack'[j] = stack[j]
      BY <1>3
    <2>2. CASE k \in 1 .. Len(stack)
      BY <1>3, <2>1, <2>2 DEF PInv
    <2>3. CASE k = Len(stack) + 1
      BY <1>2, <1>3, <1>6, <2>1, <2>3
    <2> QED
      BY <1>4, <2>2, <2>3
  <1>8. \A d \in Known' : memo'[d] # <<>>
    BY DEF PInv, Known
  <1> QED
    BY <1>1, <1>5, <1>7, <1>8 DEF PInv

LEMMA AnswersListed ==
    ASSUME PInv, stack # <<>>, Answer
    PROVE  PInv'
  <1>1. IInv' /\ bases' = bases /\ panicked' = panicked
    BY Answers DEF PInv, Answer
  <1>2. Top.def \in Contract /\ Top.out # <<>>
    BY TopSane DEF PInv, Sane
  <1>3. \A d \in Contract : memo'[d] = IF d = Top.def THEN Top.out ELSE memo[d]
    BY <1>2 DEF PInv, IInv, Answer
  <1>4. \A d \in Known' : memo'[d] # <<>>
    BY <1>2, <1>3 DEF PInv, Known
  <1>5. /\ Len(stack') = Len(stack) - 1 /\ Len(stack) \in Nat
        /\ \A k \in 1 .. (Len(stack) - 1) : stack'[k] = stack[k]
    BY WithoutLast DEF PInv, IInv, Answer
  <1>6. \A k \in 1 .. Len(stack') : k \in 1 .. Len(stack) /\ stack'[k] = stack[k]
    BY <1>5
  <1>7. \A j, k \in 1 .. Len(stack') : j < k => stack'[k].def \in AncestorsIn(bases, stack'[j].def)
    BY <1>6 DEF PInv
  <1>8. \A k \in 1 .. Len(stack') : Listed(stack'[k], bases)
    BY <1>6 DEF PInv
  <1> QED
    BY <1>1, <1>4, <1>7, <1>8 DEF PInv

LEMMA PanicsListed ==
    ASSUME PInv, NEW why \in {"cycle", "unwrap"}, Panic(why),
           Placed(why, bases)
    PROVE  PInv'
  <1>1. IInv' /\ Len(stack') = 0 /\ bases' = bases /\ memo' = memo /\ panicked' = why
    BY Panics DEF PInv, Panic
  <1>2. \A d \in Known' : memo'[d] # <<>>
    BY <1>1 DEF PInv, Known
  <1>3. \A k : k \notin 1 .. Len(stack')
    BY <1>1
  <1> QED
    BY <1>1, <1>2, <1>3 DEF PInv

LEMMA InitPInv == Init => PInv
  <1> SUFFICES ASSUME Init PROVE PInv
    OBVIOUS
  <1>1. Len(stack) = 0 /\ panicked = "no" /\ \A c \in Contract : memo[c] = None
    BY DEF Init
  <1>2. \A k : k \notin 1 .. Len(stack)
    BY <1>1
  <1> QED
    BY <1>1, <1>2, InitIInv DEF PInv, Placed, Known

LEMMA StepPInv == PInv /\ [Next]_vars => PInv'
  <1> SUFFICES ASSUME PInv, [Next]_vars PROVE PInv'
    OBVIOUS
  <1>1. IInv
    BY DEF PInv
  <1>2. CASE UNCHANGED vars
    <2>1. IInv'
      BY <1>1, <1>2, Step
    <2>2. /\ bases' = bases /\ memo' = memo /\ stack' = stack /\ panicked' = panicked
      BY <1>2 DEF vars
    <2>3. Known' = Known
      BY <2>2 DEF Known
    <2> QED
      BY <2>1, <2>2, <2>3 DEF PInv
  <1>3. ASSUME NEW c \in Asked, Ask(c) PROVE PInv'
    <2>1. OnStack = {} /\ c \in Contract /\ stack = <<>>
      BY <1>3, BaseAssumption DEF OnStack, Ask
    <2>2. stack' = Append(stack, Frame(c))
      BY <1>3 DEF Ask
    <2> QED
      BY <1>3, <2>1, <2>2, CallsListed DEF Ask
  <1>4. AtBase => /\ stack # <<>> /\ Top \in Frames /\ Sane(Top, Known) /\ Top.todo # <<>>
                  /\ Listed(Top, bases) /\ NextBase \in SeqRange(bases[Top.def])
    <2> SUFFICES ASSUME AtBase
                 PROVE  /\ stack # <<>> /\ Top \in Frames /\ Sane(Top, Known) /\ Top.todo # <<>>
                        /\ Listed(Top, bases) /\ NextBase \in SeqRange(bases[Top.def])
      OBVIOUS
    <2>1. stack # <<>> /\ Top.todo # <<>>
      BY DEF AtBase, Running
    <2>2. Top \in Frames /\ Sane(Top, Known) /\ Listed(Top, bases)
      BY <1>1, <2>1, TopSane DEF PInv
    <2>3. 1 \in 1 .. Len(Top.todo) /\ NextBase = Top.todo[1]
      BY <2>1, <2>2, HeadTail DEF Frames, NextBase
    <2> QED
      BY <2>1, <2>2, <2>3 DEF Listed
  <1>5. CASE SkipBase
    <2> DEFINE next == [Top EXCEPT !.todo = Tail(@)]
    <2>1. AtBase /\ SetTop(next)
      BY <1>5 DEF SkipBase
    <2>2. Sane(next, Known) /\ next \in Frames
      BY <1>4, <2>1, SkipSane DEF Sane
    <2>3. /\ next.def = Top.def /\ next.out = Top.out /\ next.todo = Tail(Top.todo)
          /\ next.lists = Top.lists
      BY <1>4, <2>1 DEF Frames
    <2> HIDE DEF next
    <2>4. Listed(next, bases)
      BY <1>4, <2>1, <2>2, <2>3, TailListed
    <2> QED
      BY <1>4, <1>5, <2>1, <2>2, <2>3, <2>4, GoesOnListed DEF SkipBase
  <1>6. ASSUME NEW list \in Seq(Contract), Distinct(list), SeqRange(list) \subseteq Known,
               AtBase, GotList(list), UNCHANGED <<bases, memo, panicked>>,
               list # <<>> \/ NextBase \in Other
        PROVE  PInv'
    <2> DEFINE next == [Top EXCEPT !.todo = Tail(@), !.lists = Append(@, list)]
    <2>1. SetTop(next)
      BY <1>6 DEF GotList
    <2>2. Sane(next, Known) /\ next \in Frames
      <3>1. Sane(next, Known)
        BY <1>4, <1>6, GotSane
      <3> QED
        BY <3>1 DEF Sane
    <2>3. /\ next.def = Top.def /\ next.out = Top.out /\ next.todo = Tail(Top.todo)
          /\ next.lists = Append(Top.lists, list)
      BY <1>4, <1>6 DEF Frames
    <2> HIDE DEF next
    <2>4. Listed(next, bases)
      BY <1>4, <1>6, <2>2, <2>3, TailListed DEF NextBase
    <2> QED
      BY <1>4, <1>6, <2>1, <2>2, <2>3, <2>4, GoesOnListed
  <1>7. CASE TakeOther
    <2>1. <<>> \in Seq(Contract) /\ Distinct(<<>>) /\ SeqRange(<<>>) \subseteq Known
      BY DEF Distinct, SeqRange
    <2> QED
      BY <1>6, <1>7, <2>1 DEF TakeOther
  <1>8. CASE TakeMemo
    <2>1. NextBase \in Known
      BY <1>8 DEF TakeMemo, Known
    <2>2. Finished(memo[NextBase], NextBase, Known) /\ memo[NextBase] # <<>>
      BY <2>1 DEF PInv, IInv
    <2> QED
      BY <1>6, <1>8, <2>2 DEF TakeMemo, Finished
  <1>9. CASE Descend
    <2>1. NextBase \in BasesOf(Top.def)
      BY <1>4, <1>9 DEF Descend, BasesOf
    <2> QED
      BY <1>9, <2>1, CallsListed DEF Descend
  <1>10. CASE MeetCycle
    <2>1. NextBase \in SeqRange(bases[Top.def]) /\ stack # <<>>
      BY <1>4, <1>10 DEF MeetCycle
    <2>2. PICK j \in 1 .. Len(stack) : NextBase = stack[j].def
      BY <1>1, <1>10 DEF MeetCycle, OnStack, IInv
    <2>3. stack[j].def \in Contract /\ Top.def \in Contract
      BY <1>1, <2>1, TopSane DEF IInv, Sane
    <2>4. Top.def = stack[j].def \/ Top.def \in AncestorsIn(bases, stack[j].def)
      <3>1. Len(stack) \in 1 .. Len(stack) /\ Top = stack[Len(stack)] /\ Len(stack) \in Nat
        BY <1>1, <2>1, TopSane
      <3>2. j = Len(stack) \/ j < Len(stack)
        BY <3>1
      <3> QED
        BY <3>1, <3>2 DEF PInv
    <2>5. NextBase \in SeqRange(bases[Top.def]) \cap Contract
      BY <2>1, <2>2, <2>3
    <2>6. stack[j].def \in AncestorsIn(bases, stack[j].def)
      BY <2>2, <2>3, <2>4, <2>5, BaseOfAncestor
    <2>7. Placed("cycle", bases)
      BY <2>3, <2>6 DEF Placed
    <2> QED
      BY <1>10, <2>7, PanicsListed DEF MeetCycle
  <1>11. CASE MergeRound
    <2>1. stack # <<>> /\ Sane(Top, Known) /\ Top.todo = <<>> /\ Top \in Frames
      BY <1>1, <1>11, TopSane DEF MergeRound, Merging, Running
    <2>2. PICK k \in There(Top) :
             /\ IsGood(Top, k)
             /\ SetTop([Top EXCEPT !.lists = Without(Top, k),
                                   !.out = Append(@, Head(Top.lists[k]))])
      BY <1>11 DEF MergeRound
    <2> DEFINE next == [Top EXCEPT !.lists = Without(Top, k),
                                   !.out = Append(@, Head(Top.lists[k]))]
    <2>3. k \in DOMAIN Top.lists
      BY DEF There
    <2>4. Sane(next, Known)
      BY <2>1, <2>2, <2>3, RoundSane
    <2>5. /\ next.def = Top.def /\ next.todo = Top.todo /\ SetTop(next)
          /\ next.out = Append(Top.out, Head(Top.lists[k]))
      BY <2>1, <2>2 DEF Frames
    <2> HIDE DEF next
    <2>6. Len(next.out) = Len(Top.out) + 1 /\ Len(Top.out) \in Nat \ {0}
      BY <2>1, <2>5 DEF Sane, Frames
    <2>7. Listed(next, bases)
      BY <2>1, <2>5, <2>6 DEF Listed
    <2> QED
      BY <1>11, <2>1, <2>4, <2>5, <2>7, GoesOnListed DEF MergeRound
  <1>12. CASE MergeUnwrap
    <2>1. stack # <<>> /\ Sane(Top, Known) /\ Top \in Frames /\ Listed(Top, bases) /\ Top.def \in Contract
      BY <1>1, <1>12, TopSane DEF MergeUnwrap, Merging, Running, PInv, Sane
    <2>2. PICK k \in There(Top) : Top.lists[k] = <<>>
      BY <1>12 DEF MergeUnwrap
    <2>3. k \in 1 .. Len(Top.lists) /\ Len(Top.out) = 1
      BY <2>1, <2>2 DEF There, Frames
    <2>4. SeqRange(bases[Top.def]) \cap Other # {}
      BY <2>1, <2>2, <2>3 DEF Listed
    <2>5. Placed("unwrap", bases)
      BY <2>1, <2>4 DEF Placed
    <2> QED
      BY <1>12, <2>5, PanicsListed DEF MergeUnwrap
  <1>13. CASE MergeStuck
    BY <1>13, AnswersListed DEF MergeStuck, Merging, Running
  <1>14. CASE MergeDone
    BY <1>14, AnswersListed DEF MergeDone, Merging, Running
  <1> QED
    BY <1>2, <1>3, <1>5, <1>7, <1>8, <1>9, <1>10, <1>11, <1>12, <1>13, <1>14 DEF Next, Run

(* The query comes to depend on itself only if some contract inherits from  *)
(* itself, and c3_merge unwraps the head of an empty list only if an        *)
(* inheritance list names something that is no contract.                    *)
THEOREM PanicsPlaced == Spec => []PanicsNarrow
  <1>1. \A c : Ancestors(c) = AncestorsIn(bases, c)
    BY DEF Ancestors, AncestorsIn, BasesOf
  <1>2. PInv => PanicsNarrow
    BY <1>1 DEF PInv, Placed, PanicsNarrow
  <1> QED
    BY <1>2, InitPInv, StepPInv, PTL DEF Spec

-----------------------------------------------------------------------------
(* Merges that give up *)

LEMMA Least ==
    ASSUME NEW T \in SUBSET Nat, T # {}
    PROVE  \E n \in T : \A m \in T : n <= m
  <1> DEFINE F == {1 .. n : n \in T}
             R == StrictSubsetOrdering(Nat)
  <1>1. F \subseteq FiniteSubsetsOf(Nat) /\ F # {}
    <2> SUFFICES ASSUME NEW n \in T
                 PROVE  IsFiniteSet(1 .. n) /\ 1 .. n \in SUBSET Nat
      BY DEF FiniteSubsetsOf
    <2> QED
      BY FS_Interval
  <1>2. IsWellFoundedOn(R, FiniteSubsetsOf(Nat))
    BY FS_StrictSubsetOrderingWellFounded
  <1>3. \E x \in F : \A y \in F : <<y, x>> \notin R
    <2> HIDE DEF F, R
    <2> QED
      BY <1>1, <1>2, WFMin
  <1>4. PICK n \in T : \A y \in F : <<y, 1 .. n>> \notin R
    BY <1>3
  <1>5. ASSUME NEW m \in T, m < n
        PROVE  FALSE
    <2>1. 1 .. m \in F /\ 1 .. m \in SUBSET Nat /\ 1 .. n \in SUBSET Nat
      <3>1. 1 .. m \in F
        OBVIOUS
      <3>2. m \in Nat /\ n \in Nat
        OBVIOUS
      <3> HIDE DEF F, R
      <3>3. 1 .. m \in SUBSET Nat /\ 1 .. n \in SUBSET Nat
        BY <3>2
      <3> QED
        BY <3>1, <3>3
    <2>2. 1 .. m \subseteq 1 .. n /\ n \in 1 .. n /\ n \notin 1 .. m
      BY <1>5
    <2>3. <<1 .. m, 1 .. n>> \in R
      BY <2>1, <2>2 DEF StrictSubsetOrdering
    <2> QED
      BY <1>4, <2>1, <2>3
  <1> QED
    BY <1>5

LEMMA ImageFinite ==
    ASSUME NEW S, IsFiniteSet(S), NEW f, DOMAIN f = S, f = [x \in S |-> f[x]]
    PROVE  IsFiniteSet({f[x] : x \in S})
  <1>1. f \in Surjection(S, {f[x] : x \in S})
    BY DEF Surjection
  <1> QED
    BY <1>1, FS_Surjection

LEMMA RangeFinite ==
    ASSUME NEW S, NEW s \in Seq(S)
    PROVE  IsFiniteSet(SeqRange(s))
  <1>1. IsFiniteSet(1 .. Len(s)) /\ DOMAIN s = 1 .. Len(s) /\ s = [i \in 1 .. Len(s) |-> s[i]]
    <2>1. Len(s) \in Nat /\ 1 \in Int /\ Len(s) \in Int
      OBVIOUS
    <2>2. IsFiniteSet(1 .. Len(s))
      BY <2>1, FS_Interval
    <2>3. DOMAIN s = 1 .. Len(s) /\ s = [i \in 1 .. Len(s) |-> s[i]]
      OBVIOUS
    <2> QED
      BY <2>2, <2>3
  <1> QED
    BY <1>1, ImageFinite DEF SeqRange

(* An order of a finite set has every element. *)
LEMMA OrderHasAll ==
    ASSUME NEW S, IsFiniteSet(S), NEW s \in OrdersOf(S)
    PROVE  /\ Len(s) \in Nat
           /\ \A x \in S : \E i \in 1 .. Len(s) : s[i] = x
  <1> DEFINE n == Cardinality(S)
  <1>1. n \in Nat
    BY FS_CardinalityType
  <1>2. s \in [1 .. n -> S] /\ Distinct(s)
    BY DEF OrdersOf
  <1> HIDE DEF n
  <1>3. Len(s) = n
    BY <1>1, <1>2, FunctionIsSeq
  <1>4. s \in Injection(1 .. n, S)
    BY <1>2, <1>3 DEF Injection, IsInjective, Distinct
  <1>5. Cardinality(1 .. n) = n
    <2>1. 1 \in Int /\ n \in Int /\ (1 > n => n = 0) /\ n - 1 + 1 = n
      BY <1>1
    <2> QED
      BY <2>1, FS_Interval
  <1>6. s \in Surjection(1 .. n, S)
    BY <1>4, <1>5, FS_Injection DEF n
  <1> QED
    BY <1>1, <1>3, <1>6 DEF Surjection

(* Every list is what remains of one of the sequences T. *)
AllRemain(lists, T) ==
    \A l \in 1 .. Len(lists) : lists[l] # <<>> =>
        \E t \in T : \E n \in 0 .. Len(t) : Remains(lists[l], t, n)

HeadsInTails(lists) ==
    \A l \in 1 .. Len(lists) : lists[l] # <<>> =>
        \E k \in 1 .. Len(lists) : \E i \in 2 .. Len(lists[k]) : lists[k][i] = lists[l][1]

(* s has all elements of the sequences T, in their order. *)
Agrees(s, T) == \A t \in T : Keeps(s, t) /\ \A k \in 1 .. Len(t) : \E i \in 1 .. Len(s) : s[i] = t[k]

(* If every head of what remains of some sequences is in a tail of it, no   *)
(* order agrees with the sequences: the first of what remains would be a    *)
(* head, and in no tail.                                                    *)
LEMMA NoOrder ==
    ASSUME NEW T, \A t \in T : t \in Seq(Contract),
           NEW lists \in Seq(Seq(Contract)), AllRemain(lists, T), HeadsInTails(lists),
           NEW l0 \in 1 .. Len(lists), lists[l0] # <<>>,
           NEW s, Len(s) \in Nat, Agrees(s, T)
    PROVE  FALSE
  <1> DEFINE P == {i \in 1 .. Len(s) : \E l \in 1 .. Len(lists) :
                                          \E j \in 1 .. Len(lists[l]) : s[i] = lists[l][j]}
  <1>1. ASSUME NEW l \in 1 .. Len(lists), lists[l] # <<>>
        PROVE  \E q \in P : s[q] = lists[l][1]
    <2>1. lists[l] \in Seq(Contract)
      OBVIOUS
    <2>2. 1 \in 1 .. Len(lists[l])
      BY <1>1, <2>1
    <2>3. PICK t \in T, n \in Nat : n \in 0 .. Len(t) /\ Remains(lists[l], t, n)
      BY <1>1 DEF AllRemain
    <2>4. t \in Seq(Contract) /\ n \in Nat /\ Len(t) \in Nat
      BY <2>3
    <2>5. lists[l][1] = t[n + 1] /\ n + 1 \in 1 .. Len(t)
      <3>1. Len(lists[l]) = Len(t) - n /\ lists[l][1] = t[n + 1]
        BY <2>2, <2>3 DEF Remains
      <3> QED
        BY <2>1, <2>2, <2>4, <3>1
    <2>6. PICK q \in 1 .. Len(s) : s[q] = t[n + 1]
      BY <2>3, <2>5 DEF Agrees
    <2> QED
      BY <2>2, <2>5, <2>6
  <1>2. P # {}
    BY <1>1
  <1>3. P \subseteq Nat
    OBVIOUS
  <1>4. PICK p \in P : \A q \in P : p <= q
    BY <1>2, <1>3, Least
  <1>5. ASSUME NEW l \in 1 .. Len(lists), NEW j \in 2 .. Len(lists[l]), s[p] = lists[l][j]
        PROVE  FALSE
    <2>1. lists[l] \in Seq(Contract)
      OBVIOUS
    <2>2. lists[l] # <<>> /\ 1 \in 1 .. Len(lists[l]) /\ j \in 1 .. Len(lists[l]) /\ 1 < j
      BY <2>1
    <2>3. PICK t \in T, n \in Nat : n \in 0 .. Len(t) /\ Remains(lists[l], t, n)
      <3> HIDE DEF P
      <3> QED
        BY <2>2 DEF AllRemain
    <2>4. t \in Seq(Contract) /\ n \in Nat /\ Len(t) \in Nat
      BY <2>3
    <2>5. /\ lists[l][1] = t[n + 1] /\ n + 1 \in 1 .. Len(t)
          /\ lists[l][j] = t[n + j] /\ n + j \in 1 .. Len(t) /\ n + 1 < n + j
      <3>1. Len(lists[l]) = Len(t) - n /\ lists[l][1] = t[n + 1] /\ lists[l][j] = t[n + j]
        BY <2>2, <2>3 DEF Remains
      <3>2. Len(lists[l]) \in Nat
        BY <2>1
      <3> HIDE DEF P
      <3> QED
        BY <2>2, <2>4, <3>1, <3>2
    <2>6. PICK q \in P : s[q] = lists[l][1]
      BY <1>1, <2>2
    <2>7. q \in 1 .. Len(s) /\ p \in 1 .. Len(s)
      OBVIOUS
    <2> HIDE DEF P
    <2>8. q < p
      BY <1>5, <2>3, <2>5, <2>6, <2>7 DEF Keeps, Agrees
    <2> QED
      BY <1>4, <2>6, <2>7, <2>8
  <1>6. PICK l \in 1 .. Len(lists), j \in Nat : j \in 1 .. Len(lists[l]) /\ s[p] = lists[l][j]
    <2>1. PICK l \in 1 .. Len(lists) : \E j \in 1 .. Len(lists[l]) : s[p] = lists[l][j]
      BY <1>4
    <2>2. PICK j \in 1 .. Len(lists[l]) : s[p] = lists[l][j]
      BY <2>1
    <2>3. j \in Nat
      OBVIOUS
    <2> HIDE DEF P
    <2> QED
      BY <2>2, <2>3
  <1> HIDE DEF P
  <1>7. lists[l] \in Seq(Contract)
    OBVIOUS
  <1>8. j = 1 /\ lists[l] # <<>>
    <2>1. j = 1 \/ j \in 2 .. Len(lists[l])
      BY <1>6, <1>7
    <2> QED
      BY <1>5, <1>6, <1>7, <2>1
  <1>9. PICK k \in 1 .. Len(lists), i \in Nat : i \in 2 .. Len(lists[k]) /\ lists[k][i] = lists[l][1]
    <2>1. PICK k \in 1 .. Len(lists) : \E i \in 2 .. Len(lists[k]) : lists[k][i] = lists[l][1]
      BY <1>8 DEF HeadsInTails
    <2>2. PICK i \in 2 .. Len(lists[k]) : lists[k][i] = lists[l][1]
      BY <2>1
    <2>3. lists[k] \in Seq(Contract)
      OBVIOUS
    <2> QED
      BY <2>2, <2>3
  <1> QED
    BY <1>5, <1>6, <1>8, <1>9

(* What a contract's bases have been linearized to. *)
Given(h, m, c) == {m[b] : b \in {a \in SeqRange(h[c]) \cap Contract : m[a] # None}}

(* What a call merges, and has merged, is from its bases' linearizations.   *)
Drawn(frame, h, m) ==
    /\ AllRemain(frame.lists, Given(h, m, frame.def))
    /\ \A j \in 1 .. Len(frame.out) :
          frame.out[j] = frame.def \/ \E t \in Given(h, m, frame.def) : frame.out[j] \in SeqRange(t)

(* NotGivenUp for one contract and a linearization of it. *)
All(h, m, c) == {c} \cup UNION {SeqRange(t) : t \in Given(h, m, c)}
Settled(out, h, m, c) ==
    \/ SeqRange(out) = All(h, m, c)
    \/ ~\E s \in OrdersOf(All(h, m, c)) : \A t \in Given(h, m, c) : Keeps(s, t)

GInv ==
    /\ OInv /\ PInv
    /\ \A k \in 1 .. Len(stack) : Drawn(stack[k], bases, memo)
    /\ \A c \in Contract : memo[c] # None => Settled(memo[c], bases, memo, c)

LEMMA AllFinite ==
    ASSUME NEW h, NEW m, NEW c, h[c] \in Seq(Base), \A t \in Given(h, m, c) : t \in Seq(Contract)
    PROVE  IsFiniteSet(All(h, m, c))
  <1> DEFINE B == {a \in SeqRange(h[c]) \cap Contract : m[a] # None}
             f == [b \in B |-> SeqRange(m[b])]
  <1>1. IsFiniteSet(B)
    <2>1. IsFiniteSet(SeqRange(h[c])) /\ B \subseteq SeqRange(h[c])
      BY RangeFinite
    <2> QED
      BY <2>1, FS_Subset
  <1>2. {SeqRange(t) : t \in Given(h, m, c)} = {f[b] : b \in B}
    BY DEF Given
  <1>3. IsFiniteSet({f[b] : b \in B})
    <2>1. DOMAIN f = B /\ f = [x \in B |-> f[x]]
      OBVIOUS
    <2> HIDE DEF f, B
    <2> QED
      BY <1>1, <2>1, ImageFinite
  <1>4. \A S \in {SeqRange(t) : t \in Given(h, m, c)} : IsFiniteSet(S)
    BY RangeFinite
  <1>5. IsFiniteSet(UNION {SeqRange(t) : t \in Given(h, m, c)})
    BY <1>2, <1>3, <1>4, FS_UNION
  <1> QED
    BY <1>5, FS_Singleton, FS_Union DEF All

(* A call that goes on keeps to what its bases gave it. *)
LEMMA TailDrawn ==
    ASSUME NEW h, NEW m, NEW frame \in Frames, NEW next \in Frames, Drawn(frame, h, m),
           next.def = frame.def, next.out = frame.out,
           \/ next.lists = frame.lists
           \/ \E list \in Seq(Contract) : /\ next.lists = Append(frame.lists, list)
                                          /\ list = <<>> \/ list \in Given(h, m, frame.def)
    PROVE  Drawn(next, h, m)
  <1>1. CASE next.lists = frame.lists
    BY <1>1 DEF Drawn
  <1>2. ASSUME NEW list \in Seq(Contract), next.lists = Append(frame.lists, list),
               list = <<>> \/ list \in Given(h, m, frame.def)
        PROVE  Drawn(next, h, m)
    <2>1. /\ Len(next.lists) = Len(frame.lists) + 1 /\ Len(frame.lists) \in Nat
          /\ \A k \in 1 .. Len(frame.lists) : next.lists[k] = frame.lists[k]
          /\ next.lists[Len(frame.lists) + 1] = list
      <3>1. frame.lists \in Seq(Seq(Contract))
        BY DEF Frames
      <3> QED
        BY <1>2, <3>1, Appended
    <2>2. ASSUME NEW l \in 1 .. Len(next.lists), next.lists[l] # <<>>
          PROVE  \E t \in Given(h, m, frame.def) : \E n \in 0 .. Len(t) : Remains(next.lists[l], t, n)
      <3>1. CASE l \in 1 .. Len(frame.lists)
        BY <2>1, <2>2, <3>1 DEF Drawn, AllRemain
      <3>2. CASE l = Len(frame.lists) + 1
        <4>1. list \in Given(h, m, frame.def) /\ next.lists[l] = list
          BY <1>2, <2>1, <2>2, <3>2
        <4>2. Remains(list, list, 0) /\ 0 \in 0 .. Len(list)
          BY DEF Remains
        <4> QED
          BY <4>1, <4>2
      <3> QED
        BY <2>1, <3>1, <3>2
    <2> QED
      BY <2>2 DEF Drawn, AllRemain
  <1> QED
    BY <1>1, <1>2

LEMMA RoundDrawn ==
    ASSUME NEW h, NEW m, NEW frame \in Frames, NEW next \in Frames, Drawn(frame, h, m),
           NEW k \in DOMAIN frame.lists, IsGood(frame, k),
           \A t \in Given(h, m, frame.def) : t \in Seq(Contract),
           next.def = frame.def, next.lists = Without(frame, k),
           next.out = Append(frame.out, Head(frame.lists[k]))
    PROVE  Drawn(next, h, m)
  <1> DEFINE lists == frame.lists
             head == Head(lists[k])
  <1>1. /\ lists \in Seq(Seq(Contract)) /\ Len(lists) \in Nat /\ DOMAIN lists = 1 .. Len(lists)
        /\ frame.out \in Seq(Contract)
    BY DEF Frames
  <1>2. Len(next.lists) = Len(lists)
    <2>1. DOMAIN next.lists = 1 .. Len(lists)
      BY <1>1 DEF Without
    <2>2. next.lists \in Seq(Seq(Contract))
      BY DEF Frames
    <2> QED
      BY <1>1, <2>1, <2>2
  <1>3. ASSUME NEW l \in 1 .. Len(next.lists), next.lists[l] # <<>>
        PROVE  \E t \in Given(h, m, frame.def) : \E n \in 0 .. Len(t) : Remains(next.lists[l], t, n)
    <2>1. l \in 1 .. Len(lists) /\ lists[l] \in Seq(Contract)
      BY <1>1, <1>2
    <2>2. \/ lists[l] # <<>> /\ next.lists[l] = Tail(lists[l])
          \/ next.lists[l] = lists[l]
      <3>1. l \in 1 .. Len(frame.lists)
        BY <2>1
      <3> QED
        BY <3>1, WithoutCases
    <2>3. CASE next.lists[l] = lists[l]
      BY <1>3, <2>1, <2>3 DEF Drawn, AllRemain
    <2>4. CASE lists[l] # <<>> /\ next.lists[l] = Tail(lists[l])
      <3>1. PICK t \in Given(h, m, frame.def), n \in Nat : n \in 0 .. Len(t) /\ Remains(lists[l], t, n)
        BY <2>1, <2>4 DEF Drawn, AllRemain
      <3>2. t \in Seq(Contract) /\ Len(t) \in Nat /\ n \in Nat
        BY <3>1
      <3>3. /\ Len(lists[l]) \in Nat \ {0} /\ Len(next.lists[l]) = Len(lists[l]) - 1
            /\ \A i \in 1 .. Len(next.lists[l]) : next.lists[l][i] = lists[l][i + 1]
        BY <2>1, <2>4, HeadTail
      <3>4. n + 1 \in 0 .. Len(t) /\ Len(next.lists[l]) = Len(t) - (n + 1)
        BY <3>1, <3>2, <3>3 DEF Remains
      <3>5. ASSUME NEW i \in 1 .. Len(next.lists[l]) PROVE next.lists[l][i] = t[n + 1 + i]
        <4>1. i + 1 \in 1 .. Len(lists[l]) /\ n + (i + 1) = n + 1 + i
          BY <3>2, <3>3
        <4>2. lists[l][i + 1] = t[n + (i + 1)]
          BY <3>1, <4>1 DEF Remains
        <4> QED
          BY <3>3, <4>1, <4>2
      <3>6. Remains(next.lists[l], t, n + 1)
        BY <3>4, <3>5 DEF Remains
      <3> QED
        BY <3>1, <3>4, <3>6
    <2> QED
      BY <2>2, <2>3, <2>4
  <1>4. \E t \in Given(h, m, frame.def) : head \in SeqRange(t)
    <2>1. lists[k] # <<>> /\ lists[k] \in Seq(Contract) /\ k \in 1 .. Len(lists)
      BY <1>1 DEF IsGood
    <2>2. head = lists[k][1] /\ 1 \in 1 .. Len(lists[k])
      BY <2>1, HeadTail
    <2>3. PICK t \in Given(h, m, frame.def), n \in Nat : n \in 0 .. Len(t) /\ Remains(lists[k], t, n)
      BY <2>1 DEF Drawn, AllRemain
    <2>4. t \in Seq(Contract) /\ n \in Nat
      BY <2>3
    <2>5. head = t[n + 1] /\ n + 1 \in 1 .. Len(t)
      BY <2>2, <2>3, <2>4 DEF Remains
    <2> QED
      BY <2>3, <2>5 DEF SeqRange
  <1>5. /\ Len(next.out) = Len(frame.out) + 1 /\ Len(frame.out) \in Nat
        /\ \A i \in 1 .. Len(frame.out) : next.out[i] = frame.out[i]
        /\ next.out[Len(frame.out) + 1] = head
    <2>1. head \in Contract
      <3>1. lists[k] # <<>> /\ lists[k] \in Seq(Contract)
        BY <1>1 DEF IsGood
      <3> QED
        BY <3>1, HeadTail
    <2> QED
      BY <1>1, <2>1, Appended
  <1> HIDE DEF head
  <1>6. \A j \in 1 .. Len(next.out) :
           next.out[j] = frame.def \/ \E t \in Given(h, m, frame.def) : next.out[j] \in SeqRange(t)
    <2> TAKE j \in 1 .. Len(next.out)
    <2>1. CASE j \in 1 .. Len(frame.out)
      BY <1>5, <2>1 DEF Drawn, AllRemain
    <2>2. CASE j = Len(frame.out) + 1
      BY <1>4, <1>5, <2>2
    <2> QED
      BY <1>5, <2>1, <2>2
  <1> QED
    BY <1>3, <1>6 DEF Drawn, AllRemain

(* A merge that is done has taken over everything. *)
LEMMA DoneSettled ==
    ASSUME NEW K, NEW h, NEW m, NEW frame, Sane(frame, K), Drawn(frame, h, m),
           There(frame) = {}, \A t \in Given(h, m, frame.def) : t \in Seq(Contract) /\ Merged(frame, t)
    PROVE  Settled(frame.out, h, m, frame.def)
  <1>1. \A l \in 1 .. Len(frame.lists) : frame.lists[l] = <<>>
    BY DEF There, Sane, Frames
  <1>2. ASSUME NEW t \in Given(h, m, frame.def), NEW i \in 1 .. Len(t)
        PROVE  t[i] \in SeqRange(frame.out)
    <2>1. PICK l \in 1 .. Len(frame.lists), n \in 0 .. Len(t) :
             /\ Remains(frame.lists[l], t, n)
             /\ \A x \in 1 .. n : \E j \in 1 .. Len(frame.out) : t[x] = frame.out[j]
      BY DEF Merged
    <2>2. Len(t) \in Nat /\ n = Len(t)
      BY <1>1, <2>1 DEF Remains
    <2> QED
      BY <2>1, <2>2 DEF SeqRange
  <1>3. frame.def \in SeqRange(frame.out)
    BY DEF Sane, Frames, SeqRange
  <1>4. All(h, m, frame.def) \subseteq SeqRange(frame.out)
    BY <1>2, <1>3 DEF All, SeqRange
  <1>5. SeqRange(frame.out) \subseteq All(h, m, frame.def)
    BY DEF Drawn, AllRemain, All, SeqRange
  <1> QED
    BY <1>4, <1>5 DEF Settled

(* A merge that is stuck cannot be completed. *)
LEMMA StuckSettled ==
    ASSUME NEW h, NEW m, NEW frame \in Frames, Drawn(frame, h, m),
           There(frame) # {}, \A k \in There(frame) : frame.lists[k] # <<>> /\ ~IsGood(frame, k),
           h[frame.def] \in Seq(Base), \A t \in Given(h, m, frame.def) : t \in Seq(Contract)
    PROVE  Settled(frame.out, h, m, frame.def)
  <1> DEFINE lists == frame.lists
             T == Given(h, m, frame.def)
             S == All(h, m, frame.def)
  <1>1. lists \in Seq(Seq(Contract)) /\ DOMAIN lists = 1 .. Len(lists)
    BY DEF Frames
  <1>2. PICK l0 \in 1 .. Len(lists) : lists[l0] # <<>>
    BY <1>1 DEF There
  <1>3. ASSUME NEW l \in 1 .. Len(lists), lists[l] # <<>>
        PROVE  \E k \in 1 .. Len(lists) : \E i \in 2 .. Len(lists[k]) : lists[k][i] = lists[l][1]
    <2>1. l \in There(frame)
      BY <1>1, <1>3 DEF There
    <2>2. ~IsGood(frame, l)
      BY <2>1
    <2>3. Head(lists[l]) = lists[l][1]
      BY <1>1, <1>3
    <2> QED
      BY <1>1, <1>3, <2>2, <2>3 DEF IsGood
  <1>4. AllRemain(lists, T) /\ HeadsInTails(lists)
    BY <1>3 DEF Drawn, HeadsInTails
  <1>5. IsFiniteSet(S)
    BY AllFinite
  <1>6. \A t \in T : \A i \in 1 .. Len(t) : t[i] \in S
    BY DEF All, SeqRange
  <1>7. ASSUME NEW s \in OrdersOf(S), \A t \in T : Keeps(s, t)
        PROVE  FALSE
    <2>1. Len(s) \in Nat /\ \A x \in S : \E i \in 1 .. Len(s) : s[i] = x
      BY <1>5, <1>7, OrderHasAll
    <2>2. Agrees(s, T)
      BY <1>6, <1>7, <2>1 DEF Agrees
    <2> HIDE DEF T, S, lists
    <2>3. \A t \in T : t \in Seq(Contract)
      BY DEF T
    <2> QED
      BY <1>1, <1>2, <1>4, <2>1, <2>2, <2>3, NoOrder
  <1> QED
    BY <1>7 DEF Settled

-----------------------------------------------------------------------------
(* Merges that give up: what the steps make of the stack *)

LEMMA GivenTyped ==
    ASSUME IInv
    PROVE  \A c : \A t \in Given(bases, memo, c) : t \in Seq(Contract)
  BY DEF IInv, Given

LEMMA GoesOnDrawn ==
    ASSUME GInv, OInv', PInv', stack # <<>>, NEW frame, Drawn(frame, bases, memo),
           SetTop(frame), UNCHANGED <<bases, memo, panicked>>
    PROVE  GInv'
  <1>1. /\ Len(stack') = Len(stack)
        /\ \A k \in 1 .. Len(stack) :
              stack'[k] = IF k = Len(stack) THEN frame ELSE stack[k]
    BY DEF IInv, OInv, GInv, SetTop
  <1>2. \A k \in 1 .. Len(stack') : Drawn(stack'[k], bases, memo)
    BY <1>1 DEF GInv
  <1> QED
    BY <1>2 DEF GInv

LEMMA CallsDrawn ==
    ASSUME GInv, OInv', PInv', NEW c \in Contract, stack' = Append(stack, Frame(c)),
           UNCHANGED <<bases, memo, panicked>>
    PROVE  GInv'
  <1>1. Frame(c).def = c /\ Frame(c).out = <<c>> /\ Len(Frame(c).lists) = 0
    BY DEF Frame
  <1>2. Drawn(Frame(c), bases, memo)
    BY <1>1 DEF Drawn, AllRemain
  <1>3. Frame(c) \in Frames
    <2>1. bases[c] \in Seq(Base)
      BY BaseAssumption DEF GInv, OInv, IInv
    <2>2. Sane(Frame(c), {})
      BY <2>1, FrameSane
    <2> QED
      BY <2>2 DEF Sane
  <1>4. /\ Len(stack') = Len(stack) + 1 /\ Len(stack) \in Nat
        /\ \A k \in 1 .. Len(stack) : stack'[k] = stack[k]
        /\ stack'[Len(stack) + 1] = Frame(c)
    BY <1>3, Appended DEF IInv, OInv, GInv
  <1>5. \A k \in 1 .. Len(stack') : k \in 1 .. Len(stack) \/ k = Len(stack) + 1
    BY <1>4
  <1>6. \A k \in 1 .. Len(stack') : Drawn(stack'[k], bases, memo)
    BY <1>2, <1>4, <1>5 DEF GInv
  <1> QED
    BY <1>6 DEF GInv

(* A linearization more changes nothing for contracts whose bases had one.  *)
LEMMA AnswersSettled ==
    ASSUME GInv, OInv', PInv', stack # <<>>, Top.todo = <<>>, Answer,
           Settled(Top.out, bases, memo, Top.def)
    PROVE  GInv'
  <1> DEFINE c == Top.def
  <1>1. IInv /\ bases' = bases
    BY DEF GInv, OInv, Answer
  <1>2. c \in Contract /\ memo[c] = None /\ Ordered(Top, bases, memo)
    BY TopSane DEF GInv, OInv, Sane, Known
  <1>3. \A d \in Contract : memo'[d] = IF d = c THEN Top.out ELSE memo[d]
    BY <1>1, <1>2 DEF IInv, Answer
  <1>4. ASSUME NEW d \in Contract, d = c \/ memo[d] # None
        PROVE  Given(bases, memo', d) = Given(bases, memo, d)
    <2>1. \A b \in SeqRange(bases[d]) \cap Contract : memo[b] # None
      <3>1. CASE d = c
        <4>1. \A i \in 1 .. Len(Top.todo) : FALSE
          OBVIOUS
        <4> QED
          BY <1>2, <3>1, <4>1 DEF Ordered
      <3>2. CASE memo[d] # None
        BY <3>2 DEF GInv, OInv, InOrder
      <3> QED
        BY <1>4, <3>1, <3>2
    <2>2. \A b \in SeqRange(bases[d]) \cap Contract : memo'[b] = memo[b]
      BY <1>2, <1>3, <2>1
    <2> QED
      BY <2>1, <2>2 DEF Given
  <1>5. ASSUME NEW d \in Contract, memo'[d] # None
        PROVE  Settled(memo'[d], bases, memo', d)
    <2>1. CASE d = c
      <3>1. memo'[d] = Top.out /\ Given(bases, memo', d) = Given(bases, memo, d)
        BY <1>3, <1>4, <2>1
      <3> QED
        BY <2>1, <3>1 DEF Settled, All
    <2>2. CASE d # c
      <3>1. memo'[d] = memo[d] /\ Given(bases, memo', d) = Given(bases, memo, d)
        BY <1>3, <1>4, <1>5, <2>2
      <3>2. Settled(memo[d], bases, memo, d)
        BY <1>5, <3>1 DEF GInv
      <3> QED
        BY <3>1, <3>2 DEF Settled, All
    <2> QED
      BY <2>1, <2>2
  <1>6. /\ Len(stack') = Len(stack) - 1 /\ Len(stack) \in Nat
        /\ \A k \in 1 .. (Len(stack) - 1) : stack'[k] = stack[k]
    BY <1>1, WithoutLast DEF IInv, Answer
  <1>7. ASSUME NEW k \in 1 .. Len(stack')
        PROVE  Drawn(stack'[k], bases, memo')
    <2>1. k \in 1 .. Len(stack) /\ stack'[k] = stack[k]
      BY <1>6
    <2>2. Drawn(stack[k], bases, memo)
      BY <2>1 DEF GInv
    <2>3. Given(bases, memo, stack[k].def) \subseteq Given(bases, memo', stack[k].def)
      <3>1. \A b \in Contract : memo[b] # None => memo'[b] = memo[b]
        BY <1>2, <1>3
      <3> HIDE DEF c
      <3> QED
        BY <3>1 DEF Given
    <2> QED
      BY <2>1, <2>2, <2>3 DEF Drawn, AllRemain
  <1> QED
    BY <1>1, <1>5, <1>7 DEF GInv

LEMMA PanicsSettled ==
    ASSUME GInv, OInv', PInv', NEW why, Panic(why)
    PROVE  GInv'
  <1>1. Len(stack') = 0 /\ bases' = bases /\ memo' = memo
    BY DEF Panic
  <1>2. \A k : k \notin 1 .. Len(stack')
    BY <1>1
  <1> QED
    BY <1>1, <1>2 DEF GInv

LEMMA InitGInv == Init => GInv
  <1> SUFFICES ASSUME Init PROVE GInv
    OBVIOUS
  <1>1. Len(stack) = 0 /\ \A c \in Contract : memo[c] = None
    BY DEF Init
  <1>2. \A k : k \notin 1 .. Len(stack)
    BY <1>1
  <1> QED
    BY <1>1, <1>2, InitOInv, InitPInv DEF GInv

LEMMA StepGInv == GInv /\ [Next]_vars => GInv'
  <1> SUFFICES ASSUME GInv, [Next]_vars PROVE GInv'
    OBVIOUS
  <1>1. IInv /\ OInv /\ PInv /\ OInv' /\ PInv'
    BY StepOrdered, StepPInv DEF GInv, OInv
  <1>2. CASE UNCHANGED vars
    BY <1>1, <1>2 DEF GInv, vars
  <1>3. ASSUME NEW c \in Asked, Ask(c) PROVE GInv'
    <2>1. c \in Contract /\ stack = <<>>
      BY <1>3, BaseAssumption DEF Ask
    <2>2. stack' = Append(stack, Frame(c))
      BY <1>3 DEF Ask
    <2> QED
      BY <1>1, <1>3, <2>1, <2>2, CallsDrawn DEF Ask
  <1>4. Running => /\ stack # <<>> /\ Top \in Frames /\ Sane(Top, Known)
                   /\ Drawn(Top, bases, memo) /\ Ordered(Top, bases, memo) /\ Top.def \in Contract
                   /\ bases[Top.def] \in Seq(Base)
    <2> SUFFICES ASSUME Running
                 PROVE  /\ stack # <<>> /\ Top \in Frames /\ Sane(Top, Known)
                        /\ Drawn(Top, bases, memo) /\ Ordered(Top, bases, memo) /\ Top.def \in Contract
                        /\ bases[Top.def] \in Seq(Base)
      OBVIOUS
    <2>1. stack # <<>>
      BY DEF Running
    <2>2. Top \in Frames /\ Sane(Top, Known) /\ Drawn(Top, bases, memo) /\ Ordered(Top, bases, memo)
      BY <1>1, <2>1, TopSane DEF GInv, OInv
    <2>3. Top.def \in Contract
      BY <2>2 DEF Frames
    <2>4. bases[Top.def] \in Seq(Base)
      BY <1>1, <2>3, BaseAssumption DEF IInv
    <2> QED
      BY <2>1, <2>2, <2>3, <2>4
  <1>5. AtBase => /\ Running /\ Top.todo # <<>> /\ NextBase \in Base
                  /\ Tail(Top.todo) \in Seq(Base)
    BY <1>4, HeadTail DEF AtBase, NextBase, Frames
  <1>6. CASE SkipBase
    <2> DEFINE next == [Top EXCEPT !.todo = Tail(@)]
    <2>1. AtBase /\ SetTop(next)
      BY <1>6 DEF SkipBase
    <2>2. Sane(next, Known)
      BY <1>4, <1>5, <2>1, SkipSane
    <2>3. next.def = Top.def /\ next.out = Top.out /\ next.lists = Top.lists
      BY <1>4, <1>5, <2>1 DEF Frames
    <2> HIDE DEF next
    <2>4. Drawn(next, bases, memo)
      BY <1>4, <1>5, <2>1, <2>2, <2>3, TailDrawn DEF Sane
    <2> QED
      BY <1>1, <1>4, <1>5, <1>6, <2>1, <2>4, GoesOnDrawn DEF SkipBase
  <1>7. ASSUME NEW list \in Seq(Contract), Distinct(list), SeqRange(list) \subseteq Known,
               AtBase, GotList(list), UNCHANGED <<bases, memo, panicked>>,
               list = <<>> \/ list \in Given(bases, memo, Top.def)
        PROVE  GInv'
    <2> DEFINE next == [Top EXCEPT !.todo = Tail(@), !.lists = Append(@, list)]
    <2>1. SetTop(next)
      BY <1>7 DEF GotList
    <2>2. Sane(next, Known)
      BY <1>4, <1>5, <1>7, GotSane
    <2>3. next.def = Top.def /\ next.out = Top.out /\ next.lists = Append(Top.lists, list)
      BY <1>4, <1>5, <1>7 DEF Frames
    <2> HIDE DEF next
    <2>4. next \in Frames /\ Top \in Frames /\ Drawn(Top, bases, memo)
      BY <1>4, <1>5, <1>7, <2>2 DEF Sane
    <2>5. Drawn(next, bases, memo)
      BY <1>7, <2>3, <2>4, TailDrawn
    <2> QED
      BY <1>1, <1>4, <1>5, <1>7, <2>1, <2>5, GoesOnDrawn
  <1>8. CASE TakeOther
    <2>1. <<>> \in Seq(Contract) /\ Distinct(<<>>) /\ SeqRange(<<>>) \subseteq Known
      BY DEF Distinct, SeqRange
    <2> QED
      BY <1>7, <1>8, <2>1 DEF TakeOther
  <1>9. CASE TakeMemo
    <2>1. NextBase \in Known /\ AtBase
      BY <1>9 DEF TakeMemo, Known
    <2>2. Finished(memo[NextBase], NextBase, Known)
      BY <1>1, <2>1 DEF IInv
    <2>3. memo[NextBase] \in Given(bases, memo, Top.def)
      <3>1. 1 \in 1 .. Len(Top.todo) /\ NextBase = Top.todo[1] /\ Listed(Top, bases)
        BY <1>1, <1>4, <1>5, <2>1, HeadTail, TopSane DEF NextBase, Frames, PInv
      <3>2. NextBase \in SeqRange(bases[Top.def])
        BY <3>1 DEF Listed
      <3> QED
        BY <2>1, <3>2 DEF Given, Known
    <2> QED
      BY <1>7, <1>9, <2>2, <2>3 DEF TakeMemo, Finished
  <1>10. CASE Descend
    BY <1>1, <1>10, CallsDrawn DEF Descend
  <1>11. CASE MeetCycle
    BY <1>1, <1>11, PanicsSettled DEF MeetCycle
  <1>12. CASE MergeRound
    <2>1. Running /\ Top.todo = <<>>
      BY <1>12 DEF MergeRound, Merging
    <2>2. PICK k \in There(Top) :
             /\ IsGood(Top, k)
             /\ SetTop([Top EXCEPT !.lists = Without(Top, k),
                                   !.out = Append(@, Head(Top.lists[k]))])
      BY <1>12 DEF MergeRound
    <2> DEFINE next == [Top EXCEPT !.lists = Without(Top, k),
                                   !.out = Append(@, Head(Top.lists[k]))]
    <2>3. k \in DOMAIN Top.lists
      BY DEF There
    <2>4. Sane(next, Known)
      BY <1>4, <2>1, <2>2, <2>3, RoundSane
    <2>5. /\ next.def = Top.def /\ SetTop(next) /\ next.lists = Without(Top, k)
          /\ next.out = Append(Top.out, Head(Top.lists[k]))
      BY <1>4, <2>1, <2>2 DEF Frames
    <2> HIDE DEF next
    <2>6. next \in Frames /\ Top \in Frames /\ Drawn(Top, bases, memo) /\ IsGood(Top, k)
      BY <1>4, <2>1, <2>2, <2>4 DEF Sane
    <2>7. \A t \in Given(bases, memo, Top.def) : t \in Seq(Contract)
      BY <1>1, GivenTyped
    <2>8. Drawn(next, bases, memo)
      BY <2>3, <2>5, <2>6, <2>7, RoundDrawn
    <2> QED
      BY <1>1, <1>4, <1>12, <2>1, <2>5, <2>8, GoesOnDrawn DEF MergeRound
  <1>13. CASE MergeUnwrap
    BY <1>1, <1>13, PanicsSettled DEF MergeUnwrap
  <1>14. CASE MergeStuck
    <2>1. Running /\ Top.todo = <<>> /\ Answer /\ There(Top) # {}
          /\ \A k \in There(Top) : Top.lists[k] # <<>> /\ ~IsGood(Top, k)
      BY <1>14 DEF MergeStuck, Merging
    <2>2. \A t \in Given(bases, memo, Top.def) : t \in Seq(Contract)
      BY <1>1, GivenTyped
    <2>3. Settled(Top.out, bases, memo, Top.def)
      BY <1>4, <2>1, <2>2, StuckSettled
    <2> QED
      BY <1>1, <1>4, <2>1, <2>3, AnswersSettled
  <1>15. CASE MergeDone
    <2>1. Running /\ Top.todo = <<>> /\ Answer /\ There(Top) = {}
      BY <1>15 DEF MergeDone, Merging
    <2>2. \A t \in Given(bases, memo, Top.def) : t \in Seq(Contract) /\ Merged(Top, t)
      <3>1. \A i \in 1 .. Len(Top.todo) : FALSE
        BY <2>1
      <3>2. \A b \in SeqRange(bases[Top.def]) \cap Contract : Merged(Top, memo[b])
        BY <1>4, <2>1, <3>1 DEF Ordered
      <3>3. \A t \in Given(bases, memo, Top.def) : Merged(Top, t)
        BY <3>2 DEF Given
      <3> QED
        BY <1>1, <3>3, GivenTyped
    <2>3. Settled(Top.out, bases, memo, Top.def)
      BY <1>4, <2>1, <2>2, DoneSettled
    <2> QED
      BY <1>1, <1>4, <2>1, <2>3, AnswersSettled
  <1> QED
    BY <1>2, <1>3, <1>6, <1>8, <1>9, <1>10, <1>11, <1>12, <1>13, <1>14, <1>15 DEF Next, Run

(* A linearization leaves out an ancestor its bases have only if no order   *)
(* of all of them agrees with every base: c3_merge never gives up too soon. *)
THEOREM GivesUpOnlyIfItMust == Spec => []NotGivenUp
  <1>1. GInv => NotGivenUp
    <2> SUFFICES ASSUME GInv, NEW c \in Known,
                        NEW s \in OrdersOf(AllOf(c)), \A b \in BasesOf(c) : Keeps(s, memo[b])
                 PROVE  SeqRange(memo[c]) = AllOf(c)
      BY DEF NotGivenUp
    <2>1. \A b \in BasesOf(c) : memo[b] # None
      BY DEF GInv, OInv, InOrder, Known, BasesOf
    <2>2. Given(bases, memo, c) = {memo[b] : b \in BasesOf(c)}
      BY <2>1 DEF Given, BasesOf
    <2>3. AllOf(c) = All(bases, memo, c)
      BY <2>2 DEF AllOf, All
    <2>4. Settled(memo[c], bases, memo, c)
      BY DEF GInv, Known
    <2> QED
      BY <2>2, <2>3, <2>4 DEF Settled
  <1> QED
    BY <1>1, InitGInv, StepGInv, PTL DEF Spec

=============================================================================
