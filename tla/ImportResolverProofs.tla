------------------------ MODULE ImportResolverProofs ------------------------
(***************************************************************************)
(* Proofs about ImportResolver, for any files and import graphs: how map,  *)
(* stack and chain belong together, that no file is ever given what its    *)
(* imports do not lead to, that every file ends up with all they do lead   *)
(* to, and over which graphs the assertion can fail.                       *)
(***************************************************************************)
EXTENDS ImportResolver, FiniteSetTheorems, TLAPS

Frames == [file : File, taken : SUBSET Nat, todo : SUBSET Nat,
           resolved : SUBSET Files, cycle : SUBSET File]

(* A call is under way for a file in the chain, whose entry is empty.       *)
Sane(frame) ==
    /\ frame \in Frames
    /\ frame.todo \subseteq frame.taken /\ frame.taken \subseteq DOMAIN imports[frame.file]
    /\ frame.file \in Unresolved \cap chain /\ unresolved[frame.file] = {}

(* Every call but the innermost is at the directive the next one is for.    *)
Waits(frame, callee) == frame.todo # {} /\ At(frame).dep = callee.file

Calls ==
    /\ stack \in Seq(Frames)
    /\ \A k \in 1 .. Len(stack) : Sane(stack[k])
    /\ \A k, l \in 1 .. Len(stack) : stack[k].file = stack[l].file => k = l
    /\ \A k \in 1 .. Len(stack) : k + 1 \in 1 .. Len(stack) => Waits(stack[k], stack[k + 1])

IInv ==
    /\ imports \in [File -> Seq(Imports)]
    /\ Unresolved \subseteq {f \in File : imports[f] # <<>>}
    /\ \A f \in Unresolved : unresolved[f] \subseteq DOMAIN imports[f]
    /\ imported \in [File -> SUBSET Files] /\ names \in [File -> SUBSET Files]
    /\ usings \in [File -> SUBSET Files] /\ panicked \in BOOLEAN
    /\ Calls

LEMMA InvTypes == IInv => TypeOK
  <1> SUFFICES ASSUME IInv
               PROVE  TypeOK
    OBVIOUS
  <1>1. DOMAIN stack = 1 .. Len(stack)
    BY DEF IInv, Calls
  <1>2. OnStack \subseteq Unresolved \cap chain /\ \A f \in OnStack : unresolved[f] = {}
    <2> SUFFICES ASSUME NEW k \in 1 .. Len(stack)
                 PROVE  stack[k].file \in Unresolved \cap chain /\ unresolved[stack[k].file] = {}
      BY <1>1 DEF OnStack
    <2>1. Sane(stack[k])
      BY DEF IInv, Calls
    <2> QED
      BY <2>1 DEF Sane
  <1> QED
    BY <1>1, <1>2 DEF IInv, Calls, TypeOK

LEMMA StartsInIInv == Init => IInv
  <1> SUFFICES ASSUME Init
               PROVE  IInv
    OBVIOUS
  <1>1. imports \in [File -> Seq(Imports)]
    BY GraphsAssumption DEF Init
  <1>2. stack \in Seq(Frames) /\ Len(stack) = 0
    BY DEF Init
  <1>3. /\ Unresolved = {g \in File : imports[g] # <<>>}
        /\ \A f \in Unresolved : unresolved[f] = DOMAIN imports[f]
    BY DEF Init, Unresolved
  <1>4. /\ imported \in [File -> SUBSET Files] /\ names \in [File -> SUBSET Files]
        /\ usings \in [File -> SUBSET Files] /\ panicked \in BOOLEAN
    BY DEF Init, Files
  <1>5. Calls
    BY <1>2 DEF Calls
  <1> QED
    BY <1>1, <1>3, <1>4, <1>5 DEF IInv

(* A directive is of a file, or of none. *)
LEMMA ImportDeps ==
    ASSUME IInv, NEW f \in File, NEW k \in DOMAIN imports[f]
    PROVE  imports[f][k] \in Imports /\ imports[f][k].dep \in Files \cup {Missing}
  <1>1. imports[f] \in Seq(Imports)
    BY DEF IInv
  <1>2. imports[f][k] \in Imports
    BY <1>1
  <1> QED
    BY <1>2 DEF Imports, Files

(* Every set of numbers that is not empty has a least one. *)
LEMMA Least ==
    ASSUME NEW T \in SUBSET Nat, T # {}
    PROVE  \E n \in T : \A m \in T : n <= m
  <1> DEFINE F == {1 .. n : n \in T}
             R == StrictSubsetOrdering(Nat)
  <1>1. F \subseteq FiniteSubsetsOf(Nat) /\ F # {}
    <2> SUFFICES ASSUME NEW n \in T
                 PROVE  IsFiniteSet(1 .. n) /\ 1 .. n \in SUBSET Nat
      BY DEF FiniteSubsetsOf
    <2> QED
      BY FS_Interval
  <1>2. IsWellFoundedOn(R, FiniteSubsetsOf(Nat))
    BY FS_StrictSubsetOrderingWellFounded
  <1>3. \E x \in F : \A y \in F : <<y, x>> \notin R
    <2> HIDE DEF F, R
    <2> QED
      BY <1>1, <1>2, WFMin
  <1>4. PICK n \in T : \A y \in F : <<y, 1 .. n>> \notin R
    BY <1>3
  <1>5. ASSUME NEW m \in T, m < n
        PROVE  FALSE
    <2>1. 1 .. m \in F /\ 1 .. m \in SUBSET Nat /\ 1 .. n \in SUBSET Nat
      <3>1. 1 .. m \in F
        OBVIOUS
      <3>2. m \in Nat /\ n \in Nat
        OBVIOUS
      <3> HIDE DEF F, R
      <3>3. 1 .. m \in SUBSET Nat /\ 1 .. n \in SUBSET Nat
        BY <3>2
      <3> QED
        BY <3>1, <3>3
    <2>2. 1 .. m \subseteq 1 .. n /\ n \in 1 .. n /\ n \notin 1 .. m
      BY <1>5
    <2>3. <<1 .. m, 1 .. n>> \in R
      BY <2>1, <2>2 DEF StrictSubsetOrdering
    <2> QED
      BY <1>4, <2>1, <2>3
  <1> QED
    BY <1>5

LEMMA FirstIsIn ==
    ASSUME NEW todo \in SUBSET Nat, todo # {}
    PROVE  First(todo) \in todo
  <1>1. \E k \in todo : \A l \in todo : k <= l
    BY Least
  <1> QED
    BY <1>1 DEF First

LEMMA TopIsSane ==
    ASSUME IInv, stack # <<>>
    PROVE  /\ Len(stack) \in Nat \ {0} /\ Top = stack[Len(stack)] /\ Sane(Top)
           /\ Top \in Frames /\ Top.file \in File
  <1>1. stack \in Seq(Frames)
    BY DEF IInv, Calls
  <1>2. Len(stack) \in Nat \ {0}
    BY <1>1
  <1>3. Sane(Top)
    BY <1>2 DEF Top, IInv, Calls
  <1> QED
    BY <1>2, <1>3 DEF Top, Sane, Frames

LEMMA AtSane ==
    ASSUME IInv, NEW frame, Sane(frame), frame.todo # {}
    PROVE  /\ First(frame.todo) \in frame.todo
           /\ First(frame.todo) \in DOMAIN imports[frame.file]
           /\ At(frame) = imports[frame.file][First(frame.todo)]
           /\ At(frame).dep \in Files \cup {Missing}
  <1>1. First(frame.todo) \in frame.todo
    BY FirstIsIn DEF Sane, Frames
  <1>2. frame.file \in File /\ First(frame.todo) \in DOMAIN imports[frame.file]
    BY <1>1 DEF Sane, Frames
  <1> QED
    BY <1>1, <1>2, ImportDeps DEF At

(* The stack is below the innermost call what it is. *)
LEMMA BelowTop ==
    ASSUME IInv, stack # <<>>
    PROVE  /\ Below \in Seq(Frames) /\ Len(Below) = Len(stack) - 1
           /\ \A k \in 1 .. Len(stack) - 1 : Below[k] = stack[k]
           /\ \A frame \in Frames :
                /\ Append(Below, frame) \in Seq(Frames) /\ Len(Append(Below, frame)) = Len(stack)
                /\ \A k \in 1 .. Len(stack) - 1 : Append(Below, frame)[k] = stack[k]
                /\ Append(Below, frame)[Len(stack)] = frame
  <1>1. stack \in Seq(Frames) /\ Len(stack) \in Nat \ {0}
    BY TopIsSane DEF IInv, Calls
  <1>2. /\ Below \in Seq(Frames) /\ Len(Below) = Len(stack) - 1
        /\ \A k \in 1 .. Len(stack) - 1 : Below[k] = stack[k]
    <2>1. Below = [k \in 1 .. Len(stack) - 1 |-> stack[k]]
      BY <1>1 DEF Below, Front
    <2>2. \A k \in 1 .. Len(stack) - 1 : stack[k] \in Frames
      BY <1>1
    <2>3. Below \in [1 .. Len(stack) - 1 -> Frames] /\ Len(stack) - 1 \in Nat
      BY <1>1, <2>1, <2>2
    <2> QED
      BY <2>1, <2>3
  <1> QED
    BY <1>1, <1>2

(* One directive further: the frame changes, not the call it is. *)
LEMMA DoneIsFrame ==
    ASSUME NEW frame \in Frames, NEW resolved \in SUBSET Files, NEW cycle \in SUBSET File
    PROVE  LET next == [Done(frame) EXCEPT !.resolved = resolved, !.cycle = cycle]
           IN  /\ Done(frame) \in Frames /\ next \in Frames
               /\ next.file = frame.file /\ next.taken = frame.taken
               /\ next.todo = frame.todo \ {First(frame.todo)}
               /\ next.resolved = resolved /\ next.cycle = cycle
               /\ Done(frame).file = frame.file /\ Done(frame).taken = frame.taken
               /\ Done(frame).todo = frame.todo \ {First(frame.todo)}
               /\ Done(frame).resolved = frame.resolved /\ Done(frame).cycle = frame.cycle
  <1> DEFINE d == Done(frame)
             next == [d EXCEPT !.resolved = resolved, !.cycle = cycle]
  <1>1. /\ d \in Frames /\ d.file = frame.file /\ d.taken = frame.taken
        /\ d.todo = frame.todo \ {First(frame.todo)}
        /\ d.resolved = frame.resolved /\ d.cycle = frame.cycle
    BY DEF Frames, Done
  <1> HIDE DEF d
  <1>2. /\ next \in Frames /\ next.file = d.file /\ next.taken = d.taken /\ next.todo = d.todo
        /\ next.resolved = resolved /\ next.cycle = cycle
    BY <1>1 DEF Frames
  <1> QED
    BY <1>1, <1>2 DEF d

(* The same with a file resolved, and with a cycle found. *)
LEMMA DoneResolving ==
    ASSUME NEW frame \in Frames, NEW g \in Files
    PROVE  LET next == [Done(frame) EXCEPT !.resolved = @ \cup {g}]
           IN  /\ next \in Frames /\ next.file = frame.file /\ next.taken = frame.taken
               /\ next.todo = frame.todo \ {First(frame.todo)}
               /\ next.resolved = frame.resolved \cup {g} /\ next.cycle = frame.cycle
  <1> DEFINE d == Done(frame)
             more == d.resolved \cup {g}
             next == [d EXCEPT !.resolved = more]
  <1>1. frame.resolved \in SUBSET Files /\ frame.cycle \in SUBSET File
    BY DEF Frames
  <1>2. /\ d \in Frames /\ d.file = frame.file /\ d.taken = frame.taken
        /\ d.todo = frame.todo \ {First(frame.todo)}
        /\ d.resolved = frame.resolved /\ d.cycle = frame.cycle
    BY <1>1, DoneIsFrame
  <1>3. more = frame.resolved \cup {g} /\ more \in SUBSET Files
    BY <1>1, <1>2
  <1> HIDE DEF d, more
  <1>4. /\ next \in Frames /\ next.file = d.file /\ next.taken = d.taken /\ next.todo = d.todo
        /\ next.resolved = more /\ next.cycle = d.cycle
    BY <1>2, <1>3 DEF Frames
  <1> QED
    BY <1>2, <1>3, <1>4 DEF d, more

(* A call is part of a cycle more than before. *)
LEMMA DoneCycling ==
    ASSUME NEW frame \in Frames, NEW g \in File
    PROVE  LET next == [Done(frame) EXCEPT !.cycle = @ \cup {g}]
           IN  /\ next \in Frames /\ next.file = frame.file /\ next.taken = frame.taken
               /\ next.todo = frame.todo \ {First(frame.todo)}
               /\ next.cycle = frame.cycle \cup {g} /\ next.resolved = frame.resolved
  <1> DEFINE d == Done(frame)
             more == d.cycle \cup {g}
             next == [d EXCEPT !.cycle = more]
  <1>1. frame.resolved \in SUBSET Files /\ frame.cycle \in SUBSET File
    BY DEF Frames
  <1>2. /\ d \in Frames /\ d.file = frame.file /\ d.taken = frame.taken
        /\ d.todo = frame.todo \ {First(frame.todo)}
        /\ d.resolved = frame.resolved /\ d.cycle = frame.cycle
    BY <1>1, DoneIsFrame
  <1>3. more = frame.cycle \cup {g} /\ more \in SUBSET File
    BY <1>1, <1>2
  <1> HIDE DEF d, more
  <1>4. /\ next \in Frames /\ next.file = d.file /\ next.taken = d.taken /\ next.todo = d.todo
        /\ next.cycle = more /\ next.resolved = d.resolved
    BY <1>2, <1>3 DEF Frames
  <1> QED
    BY <1>2, <1>3, <1>4 DEF d, more

(* The innermost calls return, or the one that is left goes on. *)
LEMMA StackShrinks ==
    ASSUME IInv, imports' = imports, NEW n \in Nat, n <= Len(stack),
           stack' \in Seq(Frames), Len(stack') = n,
           \A k \in 1 .. n :
               /\ stack'[k].file = stack[k].file /\ stack'[k].taken = stack[k].taken
               /\ stack'[k].todo \subseteq stack[k].todo
               /\ k + 1 \in 1 .. n => stack'[k] = stack[k]
               /\ stack[k].file \in Unresolved' \cap chain'
               /\ unresolved'[stack[k].file] = unresolved[stack[k].file]
    PROVE  Calls'
  <1>1. Len(stack) \in Nat
    BY DEF IInv, Calls
  <1>2. \A k \in 1 .. n : k \in 1 .. Len(stack)
    BY <1>1
  <1>3. ASSUME NEW k \in 1 .. n
        PROVE  Sane(stack[k])'
    <2>1. Sane(stack[k])
      BY <1>2 DEF IInv, Calls
    <2>2. stack'[k] \in Frames
      OBVIOUS
    <2> QED
      BY <2>1, <2>2 DEF Sane
  <1>4. ASSUME NEW k \in 1 .. n, k + 1 \in 1 .. n
        PROVE  Waits(stack[k], stack[k + 1])'
    <2>1. Waits(stack[k], stack[k + 1])
      BY <1>2, <1>4 DEF IInv, Calls
    <2>2. stack'[k] = stack[k] /\ stack'[k + 1].file = stack[k + 1].file
      BY <1>4
    <2> QED
      BY <2>1, <2>2 DEF Waits, At
  <1>5. \A k, l \in 1 .. n : stack'[k].file = stack'[l].file => k = l
    BY <1>2 DEF IInv, Calls
  <1> QED
    BY <1>3, <1>4, <1>5 DEF Calls

(* The stack when a call has been made. *)
LEMMA Called ==
    ASSUME IInv, NEW f \in Unresolved, stack' = Append(stack, Frame(f))
    PROVE  /\ f \in File /\ unresolved[f] \subseteq DOMAIN imports[f]
           /\ Frame(f) \in Frames /\ Frame(f).file = f /\ Frame(f).taken = unresolved[f]
           /\ Frame(f).todo = unresolved[f] /\ Frame(f).cycle = {}
           /\ stack' \in Seq(Frames) /\ Len(stack') = Len(stack) + 1
           /\ \A k \in 1 .. Len(stack) : stack'[k] = stack[k]
           /\ stack'[Len(stack) + 1] = Frame(f)
           /\ \A k \in 1 .. Len(stack') : k \in 1 .. Len(stack) \/ k = Len(stack) + 1
  <1>1. stack \in Seq(Frames) /\ Len(stack) \in Nat
    BY DEF IInv, Calls
  <1>2. f \in File /\ imports[f] \in Seq(Imports) /\ unresolved[f] \subseteq DOMAIN imports[f]
    BY DEF IInv
  <1>3. unresolved[f] \in SUBSET Nat
    BY <1>2
  <1>4. /\ Frame(f) \in Frames /\ Frame(f).file = f /\ Frame(f).taken = unresolved[f]
        /\ Frame(f).todo = unresolved[f] /\ Frame(f).cycle = {}
    BY <1>2, <1>3 DEF Frame, Frames
  <1>5. /\ stack' \in Seq(Frames) /\ Len(stack') = Len(stack) + 1
        /\ \A k \in 1 .. Len(stack) : stack'[k] = stack[k]
        /\ stack'[Len(stack) + 1] = Frame(f)
    BY <1>1, <1>4
  <1> QED
    BY <1>1, <1>2, <1>4, <1>5

(* A call is made for a file that has none. *)
LEMMA StackGrows ==
    ASSUME IInv, imports' = imports, NEW f \in Unresolved, Take(f), f \in chain',
           stack' = Append(stack, Frame(f)),
           \A k \in 1 .. Len(stack) : stack[k].file # f /\ stack[k].file \in chain',
           stack # <<>> => Waits(Top, Frame(f))
    PROVE  Calls' /\ Unresolved' = Unresolved
  <1>1. stack \in Seq(Frames) /\ Len(stack) \in Nat
    BY DEF IInv, Calls
  <1>2. /\ Unresolved' = Unresolved /\ unresolved'[f] = {}
        /\ \A g \in Unresolved \ {f} : unresolved'[g] = unresolved[g]
    BY DEF Take, Unresolved
  <1>3. f \in File /\ unresolved[f] \subseteq DOMAIN imports[f]
    BY Called
  <1>4. /\ Frame(f) \in Frames /\ Frame(f).file = f /\ Frame(f).taken = unresolved[f]
        /\ Frame(f).todo = unresolved[f]
    BY Called
  <1>5. /\ stack' \in Seq(Frames) /\ Len(stack') = Len(stack) + 1
        /\ \A k \in 1 .. Len(stack) : stack'[k] = stack[k]
        /\ stack'[Len(stack) + 1] = Frame(f)
    BY Called
  <1>6. \A k \in 1 .. Len(stack') : k \in 1 .. Len(stack) \/ k = Len(stack) + 1
    BY Called
  <1>7. ASSUME NEW k \in 1 .. Len(stack')
        PROVE  Sane(stack[k])'
    <2>1. CASE k \in 1 .. Len(stack)
      <3>1. Sane(stack[k])
        BY <2>1 DEF IInv, Calls
      <3> QED
        BY <2>1, <3>1, <1>2, <1>5 DEF Sane
    <2>2. CASE k = Len(stack) + 1
      BY <2>2, <1>2, <1>3, <1>4, <1>5 DEF Sane
    <2> QED
      BY <1>6, <2>1, <2>2
  <1>8. \A k, l \in 1 .. Len(stack') : stack'[k].file = stack'[l].file => k = l
    BY <1>4, <1>5, <1>6 DEF IInv, Calls
  <1>9. ASSUME NEW k \in 1 .. Len(stack'), k + 1 \in 1 .. Len(stack')
         PROVE  Waits(stack[k], stack[k + 1])'
    <2>1. k \in 1 .. Len(stack) /\ stack'[k] = stack[k]
      BY <1>1, <1>5, <1>9
    <2>2. Waits(stack'[k], stack'[k + 1])
      <3>1. CASE k + 1 \in 1 .. Len(stack)
        BY <2>1, <3>1, <1>5 DEF IInv, Calls
      <3>2. CASE k + 1 = Len(stack) + 1
        <4>1. k = Len(stack) /\ stack # <<>> /\ stack'[k + 1] = Frame(f)
          BY <3>2, <2>1, <1>1, <1>5
        <4> QED
          BY <2>1, <4>1 DEF Top
      <3> QED
        BY <1>6, <1>9, <3>1, <3>2
    <2> QED
      BY <2>2 DEF Waits, At
  <1> QED
    BY <1>2, <1>5, <1>7, <1>8, <1>9 DEF Calls

(* The end of a call for f: only the entry of f changes. *)
LEMMA LeaveOne ==
    ASSUME IInv, NEW frame, Sane(frame), Leave(frame)
    PROVE  /\ Unresolved' \subseteq Unresolved
           /\ \A g \in Unresolved \ {frame.file} :
                 g \in Unresolved' /\ unresolved'[g] = unresolved[g]
           /\ \A g \in Unresolved' : unresolved'[g] \subseteq DOMAIN imports[g]
           /\ chain \ {frame.file} \subseteq chain' /\ chain' \subseteq chain
           /\ IF Remaining(frame) = {} THEN frame.file \notin Unresolved' ELSE UNCHANGED chain
  <1>1. CASE Remaining(frame) = {}
    <2>1. Finish(frame.file)
      BY <1>1 DEF Leave
    <2> QED
      BY <1>1, <2>1 DEF Finish, Unresolved, IInv
  <1>2. CASE Remaining(frame) # {}
    <2>1. PutBack(frame)
      BY <1>2 DEF Leave
    <2>2. {k \in frame.taken : imports[frame.file][k].dep \notin frame.resolved}
             \subseteq DOMAIN imports[frame.file]
      BY DEF Sane
    <2> QED
      BY <1>2, <2>1, <2>2 DEF PutBack, Unresolved, IInv
  <1> QED
    BY <1>1, <1>2

-----------------------------------------------------------------------------
(* What a file leads to depends on nothing but the directives. *)
LEMMA ClosedStays ==
    ASSUME imports' = imports, NEW kinds
    PROVE  Closed(kinds)' = Closed(kinds)
  BY DEF Closed

LEMMA ReachSelf ==
    ASSUME NEW f \in Files, NEW closed
    PROVE  f \in Reach(f, closed)
  BY DEF Reach

LEMMA ReachTrans ==
    ASSUME NEW f, NEW closed, NEW g \in Reach(f, closed)
    PROVE  Reach(g, closed) \subseteq Reach(f, closed)
  BY DEF Reach

LEMMA ReachStep ==
    ASSUME NEW f \in File, NEW k \in DOMAIN imports[f], NEW kinds,
           imports[f][k].kind \in kinds, imports[f][k].dep \in Files, imports[f][k].dep # Missing
    PROVE  imports[f][k].dep \in Reach(f, Closed(kinds))
  <1>1. imports[f][k] \in ToSet(imports[f])
    BY DEF ToSet
  <1> QED
    BY <1>1 DEF Reach, Closed

LEMMA ExtendKeepsTypes ==
    ASSUME IInv, NEW f \in File, NEW k \in DOMAIN imports[f], imports[f][k].dep \in Files,
           Extend(f, imports[f][k])
    PROVE  /\ imported' \in [File -> SUBSET Files] /\ names' \in [File -> SUBSET Files]
           /\ usings' \in [File -> SUBSET Files]
  <1> DEFINE i == imports[f][k]
  <1>1. i \in Imports /\ i.dep \in Files
    BY ImportDeps
  <1>2. ImportedBy(i.dep) \subseteq Files /\ Usings(i.dep) \subseteq Files
    BY <1>1 DEF ImportedBy, Usings, IInv, Files
  <1>3. i.kind = "named" => i.symbol \in Files
    BY <1>1 DEF Imports, Files
  <1> HIDE DEF i
  <1>4. imported' \in [File -> SUBSET Files]
    BY <1>1, <1>2 DEF Extend, IInv, i
  <1>5. names' \in [File -> SUBSET Files]
    BY <1>3 DEF Extend, IInv, i
  <1>6. usings' \in [File -> SUBSET Files]
    BY <1>2 DEF Extend, IInv, i
  <1> QED
    BY <1>4, <1>5, <1>6

(* A directive gives its file what the imported file has, and that one is   *)
(* within reach.                                                            *)
LEMMA ExtendKeepsSound ==
    ASSUME IInv, Sound, imports' = imports,
           NEW f \in File, NEW k \in DOMAIN imports[f],
           imports[f][k].dep \in Files, Extend(f, imports[f][k])
    PROVE  Sound'
  <1> DEFINE i == imports[f][k]
             full == Closed({"full"})
             any == Closed({"full", "named"})
  <1>1. Closed({"full"})' = full /\ Closed({"full", "named"})' = any
    BY ClosedStays
  <1>2. i \in Imports /\ i.kind \in {"full", "named"} /\ i.dep # Missing
    <2>1. i \in Imports
      BY ImportDeps
    <2> QED
      BY <2>1, GraphsAssumption DEF Imports, Files
  <1>3. i.dep \in Reach(f, any)
    BY <1>2, ReachStep
  <1>4. i.kind = "full" => i.dep \in Reach(f, full)
    BY <1>2, ReachStep
  <1>5. \A g \in File : imported[g] \subseteq Reach(g, full) /\ usings[g] \subseteq Reach(g, any)
    BY DEF Sound
  <1>6. i.kind = "full" => ImportedBy(i.dep) \subseteq Reach(f, full)
    <2> SUFFICES ASSUME i.kind = "full"
                 PROVE  ImportedBy(i.dep) \subseteq Reach(f, full)
      OBVIOUS
    <2> HIDE DEF full, i
    <2>1. Reach(i.dep, full) \subseteq Reach(f, full)
      BY <1>4, ReachTrans
    <2> QED
      BY <2>1, <1>5 DEF ImportedBy
  <1>7. Usings(i.dep) \subseteq Reach(f, any)
    <2> HIDE DEF any, i
    <2>1. Reach(i.dep, any) \subseteq Reach(f, any)
      BY <1>3, ReachTrans
    <2> QED
      BY <2>1, <1>3, <1>5 DEF Usings
  <1> HIDE DEF full, any
  <1>8. \A g \in File : imported'[g] \subseteq Reach(g, full)
    BY <1>4, <1>5, <1>6 DEF Extend, IInv
  <1>9. \A g \in File : usings'[g] \subseteq Reach(g, any)
    BY <1>5, <1>7 DEF Extend, IInv
  <1> QED
    BY <1>1, <1>8, <1>9 DEF Sound, Reach

-----------------------------------------------------------------------------
(* The steps of the walk, one lemma each. *)

(* The innermost call goes on; nothing else of the walk changes. *)
LEMMA TopGoesOn ==
    ASSUME IInv, stack # <<>>, UNCHANGED <<imports, unresolved, chain>>,
           NEW frame \in Frames, stack' = Append(Below, frame),
           frame.file = Top.file, frame.taken = Top.taken, frame.todo \subseteq Top.todo
    PROVE  Calls' /\ Unresolved' = Unresolved
  <1>1. Len(stack) \in Nat \ {0} /\ Top = stack[Len(stack)]
    BY TopIsSane
  <1>2. /\ stack' \in Seq(Frames) /\ Len(stack') = Len(stack)
        /\ \A k \in 1 .. Len(stack) - 1 : stack'[k] = stack[k]
        /\ stack'[Len(stack)] = frame
    BY BelowTop
  <1>3. Unresolved' = Unresolved
    BY DEF Unresolved
  <1>4. ASSUME NEW k \in 1 .. Len(stack)
        PROVE  /\ stack'[k].file = stack[k].file /\ stack'[k].taken = stack[k].taken
               /\ stack'[k].todo \subseteq stack[k].todo
               /\ k + 1 \in 1 .. Len(stack) => stack'[k] = stack[k]
               /\ stack[k].file \in Unresolved' \cap chain'
               /\ unresolved'[stack[k].file] = unresolved[stack[k].file]
    <2>1. Sane(stack[k])
      BY DEF IInv, Calls
    <2>2. k \in 1 .. Len(stack) - 1 \/ k = Len(stack)
      BY <1>1
    <2> QED
      BY <2>1, <2>2, <1>1, <1>2, <1>3 DEF Sane
  <1> QED
    BY <1>1, <1>2, <1>3, <1>4, StackShrinks

LEMMA StartSteps ==
    ASSUME IInv, Sound, NEW f \in File, Start(f)
    PROVE  IInv' /\ Sound'
  <1>1. Frame(f).file = f /\ Len(stack) = 0
    BY DEF Frame, Start
  <1>2. Calls' /\ Unresolved' = Unresolved
    BY <1>1, StackGrows DEF Start
  <1>3. \A g \in Unresolved' : unresolved'[g] \subseteq DOMAIN imports[g]
    BY <1>2 DEF Start, Take, Unresolved, IInv
  <1>4. Sound'
    BY ClosedStays DEF Start, scopes, Sound, Reach
  <1> QED
    BY <1>2, <1>3, <1>4 DEF Start, scopes, IInv

LEMMA SkipSteps ==
    ASSUME IInv, Sound, SkipMissing
    PROVE  IInv' /\ Sound'
  <1>1. stack # <<>> /\ Sane(Top) /\ Top \in Frames
    BY TopIsSane DEF SkipMissing, HasImport
  <1>2. Top.resolved \in SUBSET Files /\ Top.cycle \in SUBSET File
    BY <1>1 DEF Frames
  <1>3. /\ Done(Top) \in Frames /\ Done(Top).file = Top.file /\ Done(Top).taken = Top.taken
        /\ Done(Top).todo \subseteq Top.todo
    BY <1>1, <1>2, DoneIsFrame
  <1>4. Calls' /\ Unresolved' = Unresolved
    BY <1>1, <1>3, TopGoesOn DEF SkipMissing
  <1>5. Sound'
    BY ClosedStays DEF SkipMissing, scopes, Sound, Reach
  <1> QED
    BY <1>4, <1>5 DEF SkipMissing, scopes, IInv

LEMMA CopySteps ==
    ASSUME IInv, Sound, CopyResolved
    PROVE  IInv' /\ Sound'
  <1> DEFINE next == [Done(Top) EXCEPT !.resolved = @ \cup {Import.dep}]
  <1>1. stack # <<>> /\ Sane(Top) /\ Top \in Frames /\ Top.file \in File /\ Top.todo # {}
    BY TopIsSane DEF CopyResolved, HasImport
  <1>2. Import.dep \in Files
    BY DEF CopyResolved, Files
  <1>3. /\ next \in Frames /\ next.file = Top.file /\ next.taken = Top.taken
        /\ next.todo \subseteq Top.todo
    BY <1>1, <1>2, DoneResolving
  <1>4. Calls' /\ Unresolved' = Unresolved
    <2>1. stack' = Append(Below, next) /\ UNCHANGED <<imports, unresolved, chain>>
      BY DEF CopyResolved
    <2> HIDE DEF next
    <2> QED
      BY <1>1, <1>3, <2>1, TopGoesOn
  <1> HIDE DEF next
  <1>5. /\ First(Top.todo) \in DOMAIN imports[Top.file]
        /\ Import = imports[Top.file][First(Top.todo)]
    BY <1>1, AtSane DEF Import
  <1>6. Import.dep \in Files /\ Extend(Top.file, Import) /\ imports' = imports
    BY DEF CopyResolved, Files
  <1>7. Sound'
    BY <1>1, <1>5, <1>6, ExtendKeepsSound
  <1>8. /\ imported' \in [File -> SUBSET Files] /\ names' \in [File -> SUBSET Files]
        /\ usings' \in [File -> SUBSET Files]
    BY <1>1, <1>5, <1>6, ExtendKeepsTypes
  <1> QED
    BY <1>4, <1>7, <1>8 DEF CopyResolved, IInv

LEMMA DescendSteps ==
    ASSUME IInv, Sound, Descend
    PROVE  IInv' /\ Sound'
  <1> DEFINE f == Import.dep
  <1>1. stack # <<>> /\ f \in Unresolved /\ f \notin chain /\ Take(f) /\ f \in chain'
    BY DEF Descend, HasImport
  <1>2. \A k \in 1 .. Len(stack) : stack[k].file # f /\ stack[k].file \in chain'
    <2> SUFFICES ASSUME NEW k \in 1 .. Len(stack)
                 PROVE  stack[k].file # f /\ stack[k].file \in chain'
      OBVIOUS
    <2>1. Sane(stack[k])
      BY DEF IInv, Calls
    <2> QED
      BY <2>1, <1>1 DEF Sane, Descend
  <1>3. Waits(Top, Frame(f))
    BY DEF Descend, HasImport, Waits, Frame, Import
  <1>4. Calls' /\ Unresolved' = Unresolved
    <2>1. stack' = Append(stack, Frame(f)) /\ imports' = imports
      BY DEF Descend
    <2> HIDE DEF f
    <2> QED
      BY <1>1, <1>2, <1>3, <2>1, StackGrows
  <1>5. \A g \in Unresolved' : unresolved'[g] \subseteq DOMAIN imports[g]
    BY <1>1, <1>4 DEF Take, Unresolved, IInv
  <1>6. Sound'
    BY ClosedStays DEF Descend, scopes, Sound, Reach
  <1> QED
    BY <1>4, <1>5, <1>6 DEF Descend, scopes, IInv

LEMMA CycleSteps ==
    ASSUME IInv, Sound, MeetCycle
    PROVE  IInv' /\ Sound'
  <1> DEFINE next == [Done(Top) EXCEPT !.cycle = @ \cup {Import.dep}]
  <1>1. stack # <<>> /\ Sane(Top) /\ Top \in Frames
    BY TopIsSane DEF MeetCycle, HasImport
  <1>2. Import.dep \in File
    BY DEF MeetCycle, IInv
  <1>3. /\ next \in Frames /\ next.file = Top.file /\ next.taken = Top.taken
        /\ next.todo \subseteq Top.todo
    BY <1>1, <1>2, DoneCycling
  <1>4. Calls' /\ Unresolved' = Unresolved
    <2>1. stack' = Append(Below, next) /\ UNCHANGED <<imports, unresolved, chain>>
      BY DEF MeetCycle
    <2> HIDE DEF next
    <2> QED
      BY <1>1, <1>3, <2>1, TopGoesOn
  <1>5. Sound'
    BY ClosedStays DEF MeetCycle, scopes, Sound, Reach
  <1> QED
    BY <1>4, <1>5 DEF MeetCycle, scopes, IInv

(* What a caller makes of the call it waited for. *)
Merged(caller, left, file) ==
    [Done(caller) EXCEPT !.cycle = @ \cup left,
                         !.resolved = IF left = {} THEN @ \cup {file} ELSE @]

LEMMA MergedIsFrame ==
    ASSUME NEW caller \in Frames, NEW left \in SUBSET File, NEW file \in File
    PROVE  LET next == Merged(caller, left, file)
           IN  /\ next \in Frames /\ next.file = caller.file /\ next.taken = caller.taken
               /\ next.todo = caller.todo \ {First(caller.todo)}
               /\ next.cycle = caller.cycle \cup left
  <1> DEFINE d == Done(caller)
             cycle == d.cycle \cup left
             resolved == IF left = {} THEN d.resolved \cup {file} ELSE d.resolved
             next == [d EXCEPT !.cycle = cycle, !.resolved = resolved]
  <1>1. caller.resolved \in SUBSET Files /\ caller.cycle \in SUBSET File
    BY DEF Frames
  <1>2. /\ d \in Frames /\ d.file = caller.file /\ d.taken = caller.taken
        /\ d.todo = caller.todo \ {First(caller.todo)}
        /\ d.resolved = caller.resolved /\ d.cycle = caller.cycle
    BY <1>1, DoneIsFrame
  <1>3. cycle = caller.cycle \cup left /\ cycle \in SUBSET File /\ resolved \in SUBSET Files
    BY <1>1, <1>2 DEF Files
  <1>4. Merged(caller, left, file) = next
    BY DEF Merged
  <1> HIDE DEF d, cycle, resolved
  <1>5. /\ next \in Frames /\ next.file = d.file /\ next.taken = d.taken /\ next.todo = d.todo
        /\ next.cycle = cycle
    BY <1>2, <1>3 DEF Frames
  <1> QED
    BY <1>2, <1>3, <1>4, <1>5 DEF d, cycle

(* The caller of the innermost call waits at the directive that called it. *)
LEMMA CallerWaits ==
    ASSUME IInv, stack # <<>>, Len(stack) > 1
    PROVE  LET caller == Below[Len(Below)]
           IN  /\ Len(stack) - 1 \in 1 .. Len(stack) /\ caller = stack[Len(stack) - 1]
               /\ Sane(caller) /\ caller \in Frames /\ caller.file \in File
               /\ caller.todo # {} /\ At(caller).dep = Top.file
  <1> DEFINE n == Len(stack) - 1
  <1>1. Len(stack) \in Nat \ {0} /\ Top = stack[Len(stack)]
    BY TopIsSane
  <1>2. n \in 1 .. Len(stack) /\ n + 1 \in 1 .. Len(stack) /\ n + 1 = Len(stack)
    BY <1>1
  <1>3. Below[Len(Below)] = stack[n]
    <2>1. Len(Below) = Len(stack) - 1 /\ \A k \in 1 .. Len(stack) - 1 : Below[k] = stack[k]
      BY BelowTop
    <2> QED
      BY <2>1, <1>2
  <1>4. Sane(stack[n]) /\ Waits(stack[n], stack[n + 1])
    BY <1>2 DEF IInv, Calls
  <1> QED
    BY <1>1, <1>2, <1>3, <1>4 DEF Waits, Sane, Frames

(* The stack when the innermost call has returned to its caller. *)
LEMMA Returned ==
    ASSUME IInv, stack # <<>>, Len(stack) > 1, NEW next \in Frames,
           stack' = Append(Front(Below), next)
    PROVE  /\ stack' \in Seq(Frames) /\ Len(stack') = Len(stack) - 1
           /\ stack'[Len(stack) - 1] = next
           /\ \A k \in 1 .. Len(stack) - 1 :
                k # Len(stack) - 1 => k \in 1 .. Len(stack) - 2 /\ stack'[k] = stack[k]
  <1>1. Len(stack) \in Nat \ {0}
    BY TopIsSane
  <1>2. /\ Below \in Seq(Frames) /\ Len(Below) = Len(stack) - 1
        /\ \A k \in 1 .. Len(stack) - 1 : Below[k] = stack[k]
    BY BelowTop
  <1>3. /\ Front(Below) \in Seq(Frames) /\ Len(Front(Below)) = Len(stack) - 2
        /\ \A k \in 1 .. Len(stack) - 2 : Front(Below)[k] = stack[k]
    <2>1. Front(Below) = [k \in 1 .. Len(stack) - 2 |-> Below[k]]
      BY <1>1, <1>2 DEF Front
    <2>2. \A k \in 1 .. Len(stack) - 2 : Below[k] \in Frames /\ Below[k] = stack[k]
      BY <1>1, <1>2
    <2>3. Front(Below) \in [1 .. Len(stack) - 2 -> Frames] /\ Len(stack) - 2 \in Nat
      BY <1>1, <2>1, <2>2
    <2> QED
      BY <2>1, <2>2, <2>3
  <1> QED
    BY <1>1, <1>3

LEMMA ReturnSteps ==
    ASSUME IInv, Sound, Return
    PROVE  IInv' /\ Sound'
  <1> DEFINE left == Remaining(Top)
             caller == Below[Len(Below)]
             next == Merged(caller, left, Top.file)
  <1>1. /\ stack # <<>> /\ Leave(Top) /\ imports' = imports
        /\ Len(stack) \in Nat \ {0} /\ Top = stack[Len(stack)]
        /\ Sane(Top) /\ Top \in Frames /\ Top.file \in File /\ left \in SUBSET File
    BY TopIsSane DEF Return, Remaining, Frames
  <1>2. /\ Unresolved' \subseteq Unresolved
        /\ \A g \in Unresolved \ {Top.file} : g \in Unresolved' /\ unresolved'[g] = unresolved[g]
        /\ \A g \in Unresolved' : unresolved'[g] \subseteq DOMAIN imports[g]
        /\ chain \ {Top.file} \subseteq chain'
    BY <1>1, LeaveOne
  <1>3. /\ \A f \in Unresolved' : unresolved'[f] \subseteq DOMAIN imports'[f]
        /\ Unresolved' \subseteq {f \in File : imports'[f] # <<>>}
        /\ imports' \in [File -> Seq(Imports)]
    BY <1>1, <1>2 DEF IInv
  <1>4. CASE Len(stack) = 1
    <2>1. stack' = <<>> /\ UNCHANGED scopes /\ panicked' \in BOOLEAN
      BY <1>1, <1>4 DEF Return
    <2>2. stack' \in Seq(Frames) /\ Len(stack') = 0
      BY <2>1
    <2>3. Calls'
      BY <2>2 DEF Calls
    <2>4. Sound'
      BY <1>1, <2>1, ClosedStays DEF scopes, Sound, Reach
    <2> QED
      BY <1>3, <2>1, <2>3, <2>4 DEF scopes, IInv
  <1>5. CASE Len(stack) > 1
    <2> DEFINE n == Len(stack) - 1
    <2>1. /\ stack' = Append(Front(Below), next) /\ Extend(caller.file, At(caller))
          /\ UNCHANGED panicked
      BY <1>1, <1>5 DEF Return, Merged
    <2>2. /\ n \in 1 .. Len(stack) /\ caller = stack[n]
          /\ Sane(caller) /\ caller \in Frames /\ caller.file \in File
          /\ caller.todo # {} /\ At(caller).dep = Top.file
      BY <1>1, <1>5, CallerWaits
    <2> HIDE DEF caller, left
    <2>3. /\ next \in Frames /\ next.file = caller.file /\ next.taken = caller.taken
          /\ next.todo \subseteq caller.todo
      <3>1. /\ next \in Frames /\ next.file = caller.file /\ next.taken = caller.taken
            /\ next.todo = caller.todo \ {First(caller.todo)}
        <4>1. caller \in Frames /\ left \in SUBSET File /\ Top.file \in File
          BY <1>1, <2>2
        <4>2. /\ next \in Frames /\ next.file = caller.file /\ next.taken = caller.taken
              /\ next.todo = caller.todo \ {First(caller.todo)}
              /\ next.cycle = caller.cycle \cup left
          BY <4>1, MergedIsFrame, Zenon
        <4> QED
          BY <4>2
      <3> QED
        BY <3>1
    <2> HIDE DEF next
    <2>4. /\ stack' \in Seq(Frames) /\ Len(stack') = n /\ stack'[n] = next
          /\ \A k \in 1 .. n : k # n => k \in 1 .. n - 1 /\ stack'[k] = stack[k]
      <3>1. Len(stack) - 2 = n - 1
        BY <1>1
      <3> QED
        BY <1>1, <1>5, <2>1, <2>3, <3>1, Returned, Zenon
    <2>5. ASSUME NEW k \in 1 .. n
          PROVE  /\ stack'[k].file = stack[k].file /\ stack'[k].taken = stack[k].taken
                 /\ stack'[k].todo \subseteq stack[k].todo
                 /\ k + 1 \in 1 .. n => stack'[k] = stack[k]
                 /\ stack[k].file \in Unresolved' \cap chain'
                 /\ unresolved'[stack[k].file] = unresolved[stack[k].file]
      <3>1. k \in 1 .. Len(stack) /\ k # Len(stack) /\ Len(stack) \in 1 .. Len(stack)
        BY <1>1
      <3>2. Sane(stack[k]) /\ stack[k].file # Top.file
        BY <1>1, <3>1 DEF IInv, Calls
      <3>3. k + 1 \in 1 .. n => k # n
        BY <1>1
      <3> QED
        BY <1>2, <2>2, <2>3, <2>4, <3>2, <3>3 DEF Sane
    <2>6. Calls'
      <3>1. n \in Nat /\ n <= Len(stack)
        BY <1>1, <1>5
      <3> HIDE DEF n
      <3> QED
        BY <1>1, <2>4, <2>5, <3>1, StackShrinks
    <2>7. /\ First(caller.todo) \in DOMAIN imports[caller.file]
          /\ At(caller) = imports[caller.file][First(caller.todo)]
          /\ At(caller).dep \in Files
      BY <1>1, <2>2, AtSane DEF Files
    <2>8. Sound'
      BY <1>1, <2>1, <2>2, <2>7, ExtendKeepsSound
    <2>9. /\ imported' \in [File -> SUBSET Files] /\ names' \in [File -> SUBSET Files]
          /\ usings' \in [File -> SUBSET Files]
      BY <2>1, <2>2, <2>7, ExtendKeepsTypes
    <2> QED
      BY <1>3, <2>1, <2>6, <2>8, <2>9 DEF IInv
  <1>6. Len(stack) = 1 \/ Len(stack) > 1
    <2>1. \A m \in Nat \ {0} : m = 1 \/ m > 1
      OBVIOUS
    <2> QED
      BY <1>1, <2>1
  <1> QED
    BY <1>4, <1>5, <1>6

LEMMA StuttersStay ==
    ASSUME IInv, Sound, UNCHANGED vars
    PROVE  IInv' /\ Sound'
  <1>1. Sound'
    BY ClosedStays DEF vars, scopes, Sound, Reach
  <1>2. Calls'
    BY DEF IInv, Calls, Sane, Waits, At, Unresolved, vars
  <1> QED
    BY <1>1, <1>2 DEF vars, scopes, IInv, Unresolved

LEMMA StartsSound == Init => Sound
  <1> SUFFICES ASSUME Init, NEW f \in File
               PROVE  /\ imported[f] \subseteq Reach(f, Closed({"full"}))
                      /\ usings[f] \subseteq Reach(f, Closed({"full", "named"}))
    BY DEF Sound
  <1>1. f \in Reach(f, Closed({"full", "named"}))
    BY ReachSelf DEF Files
  <1> QED
    BY <1>1 DEF Init

LEMMA StepsKeepIInv == IInv /\ Sound /\ [Next]_vars => IInv' /\ Sound'
  BY StartSteps, SkipSteps, CopySteps, DescendSteps, CycleSteps, ReturnSteps, StuttersStay
     DEF Next

(* At every moment of the resolution of any import graph, from whichever    *)
(* files the walk starts: the map only holds directives its files have, a   *)
(* file is being resolved at most once, and then it is in the chain and its *)
(* entry in the map is empty (mem::take).                                   *)
THEOREM TypeCorrect == Spec => []TypeOK
  <1>1. Init => IInv /\ Sound
    BY StartsInIInv, StartsSound
  <1>2. IInv /\ Sound /\ [Next]_vars => (IInv /\ Sound)'
    BY StepsKeepIInv
  <1>3. IInv /\ Sound => TypeOK
    BY InvTypes
  <1> QED
    BY <1>1, <1>2, <1>3, PTL DEF Spec

(* Whatever the import graph, cycles and copies from half-resolved files    *)
(* included, resolve never gives a file a scope that no chain of imports of *)
(* everything leads to from it, nor a global using directive of a file that *)
(* no chain of imports leads to.                                            *)
THEOREM SoundAlways == Spec => []Sound
  <1>1. Init => IInv /\ Sound
    BY StartsInIInv, StartsSound
  <1>2. IInv /\ Sound /\ [Next]_vars => (IInv /\ Sound)'
    BY StepsKeepIInv
  <1> QED
    BY <1>1, <1>2, PTL DEF Spec

-----------------------------------------------------------------------------
(* When the assertion fails.  As long as no file has two ways into a ring:  *)
(* the calls lead to one another, the cycles found are of calls under way,  *)
(* and a file that was put back while it is still in the chain is in a ring *)
(* that an earlier directive of a call under way leads to.                  *)

AnyImport == Closed({"full", "named"})
InARing(g) == Ring(g, AnyImport) \notin {{}, {g}}
Past(frame, g) ==
    \E j \in frame.taken \ frame.todo : g \in LeadsTo(imports[frame.file][j], AnyImport)

CallsLead ==
    \A k, l \in 1 .. Len(stack) : k <= l => stack[l].file \in Reach(stack[k].file, AnyImport)
CyclesUnderWay ==
    \A m \in 1 .. Len(stack) : \A c \in stack[m].cycle :
        c \in Reach(stack[m].file, AnyImport) /\ \E l \in 1 .. m : stack[l].file = c
PutBackLedTo ==
    \A g \in chain \cap Unresolved :
        \/ \E l \in 1 .. Len(stack) : stack[l].file = g
        \/ InARing(g) /\ \E l \in 1 .. Len(stack) : Past(stack[l], g)

OneWay == /\ ~panicked /\ CallsLead /\ CyclesUnderWay
          /\ stack # <<>> => PutBackLedTo

LEMMA StartsOneWay == Init => OneWay
  <1> SUFFICES ASSUME Init
               PROVE  OneWay
    OBVIOUS
  <1>1. stack = <<>> /\ Len(stack) = 0
    BY DEF Init
  <1> QED
    BY <1>1 DEF Init, OneWay, CallsLead, CyclesUnderWay

(* A directive leads where its file leads. *)
LEMMA LeadsWithin ==
    ASSUME IInv, NEW f \in File, NEW k \in DOMAIN imports[f],
           NEW g \in LeadsTo(imports[f][k], AnyImport)
    PROVE  /\ g \in Reach(f, AnyImport) /\ imports[f][k].dep # Missing
           /\ g \in Reach(imports[f][k].dep, AnyImport)
  <1>1. imports[f][k] \in Imports /\ imports[f][k].dep \in Files \cup {Missing}
    BY ImportDeps
  <1>2. imports[f][k].dep # Missing /\ g \in Reach(imports[f][k].dep, AnyImport)
    BY DEF LeadsTo
  <1>3. imports[f][k].kind \in {"full", "named"}
    BY <1>1 DEF Imports
  <1>4. imports[f][k].dep \in Reach(f, AnyImport)
    BY <1>1, <1>2, <1>3, ReachStep DEF AnyImport
  <1> QED
    BY <1>2, <1>4, ReachTrans

(* A waiting call's directive leads wherever the innermost call leads.      *)
LEMMA WaitingLeads ==
    ASSUME IInv, CallsLead, stack # <<>>, NEW l \in 1 .. Len(stack), l + 1 \in 1 .. Len(stack),
           NEW g \in Reach(Top.file, AnyImport)
    PROVE  /\ First(stack[l].todo) \in stack[l].todo
           /\ First(stack[l].todo) \in DOMAIN imports[stack[l].file]
           /\ g \in LeadsTo(imports[stack[l].file][First(stack[l].todo)], AnyImport)
  <1>1. Sane(stack[l]) /\ Waits(stack[l], stack[l + 1]) /\ Sane(stack[l + 1])
    BY DEF IInv, Calls
  <1>2. /\ First(stack[l].todo) \in stack[l].todo
        /\ First(stack[l].todo) \in DOMAIN imports[stack[l].file]
        /\ At(stack[l]) = imports[stack[l].file][First(stack[l].todo)]
        /\ At(stack[l]).dep = stack[l + 1].file
    BY <1>1, AtSane DEF Waits
  <1>3. Len(stack) \in Nat \ {0} /\ Top = stack[Len(stack)]
    BY TopIsSane
  <1>4. Top.file \in Reach(stack[l + 1].file, AnyImport)
    <2>1. Len(stack) \in 1 .. Len(stack) /\ l + 1 <= Len(stack)
      BY <1>3
    <2> QED
      BY <2>1, <1>3 DEF CallsLead
  <1>5. g \in Reach(stack[l + 1].file, AnyImport)
    BY <1>4, ReachTrans
  <1>6. stack[l + 1].file # Missing
    BY <1>1, GraphsAssumption DEF Sane, Frames
  <1> QED
    BY <1>2, <1>5, <1>6 DEF LeadsTo

(* A file put back that the next directive leads to would be the second way *)
(* into its ring.                                                           *)
LEMMA NoSecondWay ==
    ASSUME IInv, CallsLead, ~TwoWaysIntoARing, HasImport, NEW g \in LeadsTo(Import, AnyImport),
           InARing(g), NEW l \in 1 .. Len(stack), Past(stack[l], g)
    PROVE  FALSE
  <1>1. /\ stack # <<>> /\ Top.todo # {} /\ Len(stack) \in Nat \ {0} /\ Top = stack[Len(stack)]
        /\ Sane(Top) /\ Top.file \in File
    BY TopIsSane DEF HasImport
  <1>2. Sane(stack[l]) /\ stack[l].file \in File
    BY DEF IInv, Calls, Sane, Frames
  <1>3. PICK j \in stack[l].taken \ stack[l].todo :
               g \in LeadsTo(imports[stack[l].file][j], AnyImport)
    BY DEF Past
  <1>4. /\ First(Top.todo) \in Top.todo /\ First(Top.todo) \in DOMAIN imports[Top.file]
        /\ Import = imports[Top.file][First(Top.todo)]
    BY <1>1, AtSane DEF Import
  <1>5. g \in Reach(Top.file, AnyImport)
    BY <1>1, <1>4, LeadsWithin
  <1>6. /\ First(stack[l].todo) \in stack[l].todo
        /\ First(stack[l].todo) \in DOMAIN imports[stack[l].file]
        /\ g \in LeadsTo(imports[stack[l].file][First(stack[l].todo)], AnyImport)
    <2>1. CASE l = Len(stack)
      BY <2>1, <1>1, <1>4
    <2>2. CASE l # Len(stack)
      <3>1. l + 1 \in 1 .. Len(stack)
        BY <1>1, <2>2
      <3> QED
        BY <3>1, <1>1, <1>5, WaitingLeads
    <2> QED
      BY <2>1, <2>2
  <1>7. j \in DOMAIN imports[stack[l].file] /\ j # First(stack[l].todo)
    BY <1>2, <1>6 DEF Sane
  <1> QED
    BY <1>2, <1>3, <1>6, <1>7 DEF TwoWaysIntoARing, InARing, AnyImport

(* The graph, and with it the ways and the rings, stays. *)
LEMMA WaysStay ==
    ASSUME imports' = imports
    PROVE  /\ AnyImport' = AnyImport /\ (TwoWaysIntoARing' <=> TwoWaysIntoARing)
           /\ \A g : InARing(g)' <=> InARing(g)
  <1>1. AnyImport' = AnyImport
    BY ClosedStays DEF AnyImport
  <1>2. TwoWaysIntoARing' <=> TwoWaysIntoARing
    BY <1>1 DEF TwoWaysIntoARing, AnyImport, LeadsTo, Ring
  <1>3. ASSUME NEW g
        PROVE  InARing(g)' <=> InARing(g)
    BY <1>1 DEF InARing
  <1> QED
    BY <1>1, <1>2, <1>3

(* The innermost call goes on, with no cycle that is not of calls under way. *)
LEMMA GoesOnOneWay ==
    ASSUME IInv, OneWay, stack # <<>>, UNCHANGED <<imports, unresolved, chain, panicked>>,
           NEW frame \in Frames, stack' = Append(Below, frame),
           frame.file = Top.file, frame.taken = Top.taken, frame.todo \subseteq Top.todo,
           \A c \in frame.cycle : c \in Reach(Top.file, AnyImport)
                                  /\ \E l \in 1 .. Len(stack) : stack[l].file = c
    PROVE  OneWay'
  <1>1. Len(stack) \in Nat \ {0} /\ Top = stack[Len(stack)]
    BY TopIsSane
  <1>2. /\ stack' \in Seq(Frames) /\ Len(stack') = Len(stack)
        /\ \A k \in 1 .. Len(stack) - 1 : stack'[k] = stack[k]
        /\ stack'[Len(stack)] = frame
    BY BelowTop
  <1>3. AnyImport' = AnyImport /\ \A g : InARing(g)' <=> InARing(g)
    BY WaysStay
  <1>4. \A k \in 1 .. Len(stack) : k \in 1 .. Len(stack) - 1 \/ k = Len(stack)
    BY <1>1
  <1>5. \A k \in 1 .. Len(stack) :
            /\ stack'[k].file = stack[k].file /\ stack'[k].taken = stack[k].taken
            /\ stack'[k].todo \subseteq stack[k].todo
    BY <1>1, <1>2, <1>4
  <1>6. CallsLead'
    BY <1>2, <1>3, <1>5 DEF OneWay, CallsLead
  <1>7. CyclesUnderWay'
    <2> SUFFICES ASSUME NEW m \in 1 .. Len(stack), NEW c \in stack'[m].cycle
                 PROVE  /\ c \in Reach(stack'[m].file, AnyImport)
                        /\ \E l \in 1 .. m : stack'[l].file = c
      BY <1>2, <1>3 DEF CyclesUnderWay
    <2>1. 1 .. m \subseteq 1 .. Len(stack)
      BY <1>1
    <2>2. CASE m = Len(stack)
      BY <2>1, <2>2, <1>1, <1>2, <1>5
    <2>3. CASE m # Len(stack)
      <3>1. stack'[m] = stack[m] /\ c \in stack[m].cycle
        BY <2>3, <1>2, <1>4
      <3>2. c \in Reach(stack[m].file, AnyImport) /\ \E l \in 1 .. m : stack[l].file = c
        BY <3>1 DEF OneWay, CyclesUnderWay
      <3> QED
        BY <2>1, <3>1, <3>2, <1>5
    <2> QED
      BY <2>2, <2>3
  <1>8. PutBackLedTo'
    <2> SUFFICES ASSUME NEW g \in chain \cap Unresolved
                 PROVE  \/ \E l \in 1 .. Len(stack) : stack'[l].file = g
                        \/ InARing(g) /\ \E l \in 1 .. Len(stack) : Past(stack[l], g)'
      BY <1>2, <1>3 DEF PutBackLedTo, Unresolved
    <2>1. \A l \in 1 .. Len(stack) : Past(stack[l], g) => Past(stack[l], g)'
      BY <1>3, <1>5 DEF Past
    <2>2. CASE \E l \in 1 .. Len(stack) : stack[l].file = g
      BY <2>2, <1>5
    <2>3. CASE InARing(g) /\ \E l \in 1 .. Len(stack) : Past(stack[l], g)
      BY <2>1, <2>3
    <2> QED
      BY <2>2, <2>3 DEF OneWay, PutBackLedTo
  <1> QED
    BY <1>6, <1>7, <1>8 DEF OneWay

(* The cycles of a call under way, for the steps that keep them. *)
LEMMA TopCycles ==
    ASSUME IInv, OneWay, stack # <<>>
    PROVE  \A c \in Top.cycle : c \in Reach(Top.file, AnyImport)
                                /\ \E l \in 1 .. Len(stack) : stack[l].file = c
  <1>1. Len(stack) \in 1 .. Len(stack) /\ Top = stack[Len(stack)]
    BY TopIsSane
  <1> QED
    BY <1>1 DEF OneWay, CyclesUnderWay

LEMMA StartOneWay ==
    ASSUME IInv, OneWay, NEW f \in File, Start(f)
    PROVE  OneWay'
  <1>1. /\ Len(stack') = 1 /\ stack'[1] = Frame(f) /\ Frame(f).file = f /\ Frame(f).cycle = {}
        /\ chain' = {f} /\ imports' = imports /\ panicked' = panicked
    BY DEF Start, Frame
  <1>2. \A k \in 1 .. Len(stack') : k = 1
    BY <1>1
  <1>3. f \in Reach(f, AnyImport) /\ AnyImport' = AnyImport
    BY <1>1, ReachSelf, WaysStay DEF Files
  <1>4. CallsLead'
    BY <1>1, <1>2, <1>3 DEF CallsLead
  <1>5. CyclesUnderWay'
    BY <1>1, <1>2 DEF CyclesUnderWay
  <1>6. PutBackLedTo'
    BY <1>1 DEF PutBackLedTo
  <1> QED
    BY <1>1, <1>4, <1>5, <1>6 DEF OneWay

LEMMA SkipOneWay ==
    ASSUME IInv, OneWay, SkipMissing
    PROVE  OneWay'
  <1>1. stack # <<>> /\ Top \in Frames
    BY TopIsSane DEF SkipMissing, HasImport
  <1>2. Top.resolved \in SUBSET Files /\ Top.cycle \in SUBSET File
    BY <1>1 DEF Frames
  <1>3. /\ Done(Top) \in Frames /\ Done(Top).file = Top.file /\ Done(Top).taken = Top.taken
        /\ Done(Top).todo \subseteq Top.todo /\ Done(Top).cycle = Top.cycle
    BY <1>1, <1>2, DoneIsFrame
  <1> QED
    BY <1>1, <1>3, TopCycles, GoesOnOneWay DEF SkipMissing

LEMMA CopyOneWay ==
    ASSUME IInv, OneWay, CopyResolved
    PROVE  OneWay'
  <1> DEFINE next == [Done(Top) EXCEPT !.resolved = @ \cup {Import.dep}]
  <1>1. stack # <<>> /\ Top \in Frames
    BY TopIsSane DEF CopyResolved, HasImport
  <1>2. Import.dep \in Files
    BY DEF CopyResolved, Files
  <1>3. /\ next \in Frames /\ next.file = Top.file /\ next.taken = Top.taken
        /\ next.todo \subseteq Top.todo /\ next.cycle = Top.cycle
    BY <1>1, <1>2, DoneResolving
  <1>4. stack' = Append(Below, next) /\ UNCHANGED <<imports, unresolved, chain, panicked>>
    BY DEF CopyResolved
  <1> HIDE DEF next
  <1> QED
    BY <1>1, <1>3, <1>4, TopCycles, GoesOnOneWay

LEMMA CycleOneWay ==
    ASSUME IInv, OneWay, ~TwoWaysIntoARing, MeetCycle
    PROVE  OneWay'
  <1> DEFINE next == [Done(Top) EXCEPT !.cycle = @ \cup {Import.dep}]
  <1>1. stack # <<>> /\ Top \in Frames /\ Top.file \in File /\ Sane(Top) /\ Top.todo # {}
    BY TopIsSane DEF MeetCycle, HasImport
  <1>2. Import.dep \in File /\ Import.dep \in chain \cap Unresolved
    BY DEF MeetCycle, IInv
  <1>3. /\ next \in Frames /\ next.file = Top.file /\ next.taken = Top.taken
        /\ next.todo \subseteq Top.todo /\ next.cycle = Top.cycle \cup {Import.dep}
    BY <1>1, <1>2, DoneCycling
  <1>4. stack' = Append(Below, next) /\ UNCHANGED <<imports, unresolved, chain, panicked>>
    BY DEF MeetCycle, scopes
  <1> HIDE DEF next
  <1>5. /\ First(Top.todo) \in DOMAIN imports[Top.file]
        /\ Import = imports[Top.file][First(Top.todo)]
    BY <1>1, AtSane DEF Import
  <1>6. Import.dep \in LeadsTo(Import, AnyImport)
    <2>1. Import.dep # Missing /\ Import.dep \in Files
      BY <1>2, GraphsAssumption DEF Files
    <2> QED
      BY <2>1, ReachSelf DEF LeadsTo
  <1>7. Import.dep \in Reach(Top.file, AnyImport)
    BY <1>1, <1>5, <1>6, LeadsWithin
  <1>8. \E l \in 1 .. Len(stack) : stack[l].file = Import.dep
    <2>1. ASSUME InARing(Import.dep), NEW l \in 1 .. Len(stack), Past(stack[l], Import.dep)
          PROVE  FALSE
      BY <2>1, <1>6, NoSecondWay DEF MeetCycle, OneWay
    <2> QED
      BY <2>1, <1>1, <1>2 DEF OneWay, PutBackLedTo
  <1> QED
    BY <1>1, <1>3, <1>4, <1>7, <1>8, TopCycles, GoesOnOneWay

LEMMA DescendOneWay ==
    ASSUME IInv, OneWay, Descend
    PROVE  OneWay'
  <1> DEFINE f == Import.dep
             n == Len(stack) + 1
  <1>1. /\ stack # <<>> /\ f \in Unresolved /\ stack' = Append(stack, Frame(f))
        /\ imports' = imports /\ panicked' = panicked /\ chain' = chain \cup {f}
        /\ Unresolved' = Unresolved
    BY DEF Descend, HasImport, Take, Unresolved
  <1>2. /\ Len(stack) \in Nat \ {0} /\ Top = stack[Len(stack)] /\ Sane(Top) /\ Top.file \in File
        /\ Top.todo # {}
    BY <1>1, TopIsSane DEF Descend, HasImport
  <1>3. f \in Reach(Top.file, AnyImport)
    <2>1. /\ First(Top.todo) \in DOMAIN imports[Top.file]
          /\ Import = imports[Top.file][First(Top.todo)]
      BY <1>2, AtSane DEF Import
    <2>2. f # Missing /\ f \in Files
      BY <1>1, GraphsAssumption DEF IInv, Files
    <2>3. f \in LeadsTo(Import, AnyImport)
      BY <2>2, ReachSelf DEF LeadsTo
    <2> QED
      BY <1>2, <2>1, <2>3, LeadsWithin
  <1> HIDE DEF f
  <1>4. /\ f \in File /\ Frame(f).file = f /\ Frame(f).cycle = {}
        /\ Len(stack') = n /\ \A k \in 1 .. Len(stack) : stack'[k] = stack[k]
        /\ stack'[n] = Frame(f)
        /\ \A k \in 1 .. n : k \in 1 .. Len(stack) \/ k = n
    <2>1. Len(stack') = n /\ \A k \in 1 .. Len(stack') : k \in 1 .. Len(stack) \/ k = n
      BY <1>1, Called
    <2> QED
      BY <1>1, <2>1, Called
  <1>5. AnyImport' = AnyImport /\ \A g : InARing(g)' <=> InARing(g)
    BY <1>1, WaysStay
  <1>6. CallsLead'
    <2> SUFFICES ASSUME NEW k \in 1 .. n, NEW l \in 1 .. n, k <= l
                 PROVE  stack'[l].file \in Reach(stack'[k].file, AnyImport)
      BY <1>4, <1>5 DEF CallsLead
    <2>1. CASE l \in 1 .. Len(stack)
      <3>1. k \in 1 .. Len(stack)
        BY <2>1, <1>2
      <3> QED
        BY <2>1, <3>1, <1>4 DEF OneWay, CallsLead
    <2>2. CASE l = n /\ k \in 1 .. Len(stack)
      <3>1. Len(stack) \in 1 .. Len(stack) /\ k <= Len(stack)
        BY <2>2, <1>2
      <3>2. Top.file \in Reach(stack[k].file, AnyImport)
        BY <2>2, <3>1, <1>2 DEF OneWay, CallsLead
      <3> QED
        BY <2>2, <3>2, <1>3, <1>4, ReachTrans
    <2>3. CASE l = n /\ k = n
      BY <2>3, <1>4, ReachSelf DEF Files
    <2> QED
      BY <2>1, <2>2, <2>3, <1>4
  <1>7. CyclesUnderWay'
    <2> SUFFICES ASSUME NEW m \in 1 .. n, NEW c \in stack'[m].cycle
                 PROVE  /\ c \in Reach(stack'[m].file, AnyImport)
                        /\ \E l \in 1 .. m : stack'[l].file = c
      BY <1>4, <1>5 DEF CyclesUnderWay
    <2>1. m \in 1 .. Len(stack) /\ stack'[m] = stack[m]
      BY <1>4
    <2>2. 1 .. m \subseteq 1 .. Len(stack)
      BY <2>1, <1>2
    <2>3. c \in Reach(stack[m].file, AnyImport) /\ \E l \in 1 .. m : stack[l].file = c
      BY <2>1 DEF OneWay, CyclesUnderWay
    <2> QED
      BY <2>1, <2>2, <2>3, <1>4
  <1>8. PutBackLedTo'
    <2> SUFFICES ASSUME NEW g \in (chain \cup {f}) \cap Unresolved
                 PROVE  \/ \E l \in 1 .. n : stack'[l].file = g
                        \/ InARing(g) /\ \E l \in 1 .. n : Past(stack[l], g)'
      BY <1>1, <1>4, <1>5 DEF PutBackLedTo
    <2>1. 1 .. Len(stack) \subseteq 1 .. n /\ n \in 1 .. n
      BY <1>2
    <2>2. \A l \in 1 .. Len(stack) : Past(stack[l], g) => Past(stack[l], g)'
      BY <1>1, <1>4, <1>5 DEF Past
    <2>3. CASE g = f
      BY <2>1, <2>3, <1>4
    <2>4. CASE \E l \in 1 .. Len(stack) : stack[l].file = g
      BY <2>1, <2>4, <1>4
    <2>5. CASE InARing(g) /\ \E l \in 1 .. Len(stack) : Past(stack[l], g)
      BY <2>1, <2>2, <2>5
    <2> QED
      BY <2>3, <2>4, <2>5, <1>1 DEF OneWay, PutBackLedTo
  <1> QED
    BY <1>1, <1>6, <1>7, <1>8 DEF OneWay

LEMMA ReturnOneWay ==
    ASSUME IInv, OneWay, Return
    PROVE  OneWay'
  <1> DEFINE left == Remaining(Top)
             caller == Below[Len(Below)]
             next == Merged(caller, left, Top.file)
  <1>1. /\ stack # <<>> /\ Leave(Top) /\ imports' = imports
        /\ Len(stack) \in Nat \ {0} /\ Top = stack[Len(stack)]
        /\ Sane(Top) /\ Top \in Frames /\ Top.file \in File /\ left \in SUBSET File
    BY TopIsSane DEF Return, Remaining, Frames
  <1>2. \A c \in left : /\ c # Top.file /\ c \in Reach(Top.file, AnyImport)
                        /\ \E l \in 1 .. Len(stack) : stack[l].file = c
    BY <1>1, TopCycles DEF Remaining
  <1>3. CASE Len(stack) = 1
    <2>1. left = {}
      <3>1. \A l \in 1 .. Len(stack) : stack[l].file = Top.file
        BY <1>1, <1>3
      <3> QED
        BY <3>1, <1>2
    <2>2. stack' = <<>> /\ panicked' = (left # {})
      BY <1>1, <1>3 DEF Return
    <2>3. Len(stack') = 0
      BY <2>2
    <2> QED
      <3>1. CallsLead' /\ CyclesUnderWay'
        BY <2>3 DEF CallsLead, CyclesUnderWay
      <3>2. ~panicked'
        BY <2>1, <2>2, Zenon
      <3> QED
        BY <2>2, <3>1, <3>2 DEF OneWay
  <1>4. CASE Len(stack) > 1
    <2>0. PICK n \in Nat : n = Len(stack) - 1
      BY <1>1
    <2>1. stack' = Append(Front(Below), next) /\ UNCHANGED panicked
      BY <1>1, <1>4 DEF Return, Merged
    <2>2. /\ n \in 1 .. Len(stack) /\ caller = stack[n]
          /\ Sane(caller) /\ caller \in Frames /\ caller.file \in File
          /\ caller.todo # {} /\ At(caller).dep = Top.file
      BY <1>1, <1>4, <2>0, CallerWaits
    <2> HIDE DEF caller, left
    <2>3. /\ next \in Frames /\ next.file = caller.file /\ next.taken = caller.taken
          /\ next.todo = caller.todo \ {First(caller.todo)} /\ next.cycle = caller.cycle \cup left
      <3>1. caller \in Frames /\ left \in SUBSET File /\ Top.file \in File
        BY <1>1, <2>2
      <3> QED
        BY <3>1, MergedIsFrame
    <2> HIDE DEF next
    <2>4. /\ stack' \in Seq(Frames) /\ Len(stack') = n /\ stack'[n] = next
          /\ \A k \in 1 .. n : k # n => stack'[k] = stack[k]
      BY <1>1, <1>4, <2>0, <2>1, <2>3, Returned
    <2>5. /\ n + 1 = Len(stack) /\ n + 1 \in 1 .. Len(stack) /\ n \in 1 .. n
          /\ \A l \in 1 .. Len(stack) : l \in 1 .. n \/ l = Len(stack)
          /\ \A l \in 1 .. n : l \in 1 .. Len(stack) /\ 1 .. l \subseteq 1 .. n
      BY <1>1, <2>0, <2>2
    <2>6. AnyImport' = AnyImport /\ \A g : InARing(g)' <=> InARing(g)
      BY <1>1, WaysStay
    <2>7. \A k \in 1 .. n :
              /\ stack'[k].file = stack[k].file /\ stack'[k].taken = stack[k].taken
              /\ stack'[k].todo \subseteq stack[k].todo
      BY <2>2, <2>3, <2>4
    <2>8. Top.file \in Reach(caller.file, AnyImport)
      <3>1. n <= Len(stack) /\ Len(stack) \in 1 .. Len(stack)
        BY <1>1, <2>2
      <3> QED
        BY <1>1, <2>2, <3>1 DEF OneWay, CallsLead
    <2>9. CallsLead'
      BY <2>4, <2>5, <2>6, <2>7 DEF OneWay, CallsLead
    <2>10. CyclesUnderWay'
      <3> SUFFICES ASSUME NEW m \in 1 .. n, NEW c \in stack'[m].cycle
                   PROVE  /\ c \in Reach(stack'[m].file, AnyImport)
                          /\ \E l \in 1 .. m : stack'[l].file = c
        BY <2>4, <2>6 DEF CyclesUnderWay
      <3>1. CASE c \in stack[m].cycle
        <4>1. c \in Reach(stack[m].file, AnyImport) /\ \E l \in 1 .. m : stack[l].file = c
          BY <3>1, <2>5 DEF OneWay, CyclesUnderWay
        <4> QED
          BY <4>1, <2>5, <2>7
      <3>2. CASE m = n /\ c \in left
        <4>1. PICK l \in 1 .. Len(stack) : stack[l].file = c
          BY <3>2, <1>2
        <4>2. l \in 1 .. n
          BY <4>1, <3>2, <1>1, <1>2, <2>5
        <4>3. c \in Reach(caller.file, AnyImport)
          BY <3>2, <1>2, <2>8, ReachTrans
        <4> QED
          BY <3>2, <4>1, <4>2, <4>3, <2>2, <2>7
      <3> QED
        BY <3>1, <3>2, <2>2, <2>3, <2>4
    <2>11. ASSUME NEW g \in Reach(Top.file, AnyImport)
           PROVE  Past(stack[n], g)'
      <3>1. /\ First(caller.todo) \in caller.todo
            /\ g \in LeadsTo(imports[caller.file][First(caller.todo)], AnyImport)
        BY <1>1, <2>2, <2>5, <2>11, WaitingLeads DEF OneWay
      <3>2. First(caller.todo) \in next.taken \ next.todo
        BY <3>1, <2>2, <2>3 DEF Sane
      <3> QED
        BY <1>1, <3>1, <3>2, <2>3, <2>4, <2>6 DEF Past
    <2>12. PutBackLedTo'
      <3> SUFFICES ASSUME NEW g \in chain' \cap Unresolved'
                   PROVE  \/ \E l \in 1 .. n : stack'[l].file = g
                          \/ InARing(g) /\ \E l \in 1 .. n : Past(stack[l], g)'
        BY <2>4, <2>6 DEF PutBackLedTo
      <3>1. /\ g \in chain \cap Unresolved
            /\ left = {} => g # Top.file
        BY <1>1, LeaveOne DEF left
      <3>2. CASE g = Top.file
        <4>1. Past(stack[n], g)'
          BY <3>2, <1>1, <2>11, ReachSelf DEF Files
        <4>2. PICK c \in left : TRUE
          BY <3>1, <3>2
        <4>3. c \in Reach(g, AnyImport) /\ c # g /\ c \in File
          BY <4>2, <3>2, <1>1, <1>2
        <4>4. g \in Reach(c, AnyImport)
          <5>1. PICK l \in 1 .. Len(stack) : stack[l].file = c
            BY <4>2, <1>2
          <5>2. l <= Len(stack) /\ Len(stack) \in 1 .. Len(stack)
            BY <1>1
          <5> QED
            BY <3>2, <5>1, <5>2, <1>1 DEF OneWay, CallsLead
        <4>5. InARing(g)
          BY <4>3, <4>4 DEF InARing, Ring
        <4> QED
          BY <4>1, <4>5, <2>5
      <3>3. CASE g # Top.file /\ \E l \in 1 .. Len(stack) : stack[l].file = g
        BY <3>3, <1>1, <2>5, <2>7
      <3>4. CASE InARing(g) /\ \E l \in 1 .. Len(stack) : Past(stack[l], g)
        <4>1. PICK l \in 1 .. Len(stack) : Past(stack[l], g)
          BY <3>4
        <4>2. CASE l \in 1 .. n
          <5>1. Past(stack[l], g)'
            BY <4>1, <4>2, <1>1, <2>6, <2>7 DEF Past
          <5> QED
            BY <3>4, <4>2, <5>1
        <4>3. CASE l = Len(stack)
          <5>1. PICK j \in Top.taken \ Top.todo : g \in LeadsTo(imports[Top.file][j], AnyImport)
            BY <4>1, <4>3, <1>1 DEF Past
          <5>2. g \in Reach(Top.file, AnyImport)
            BY <5>1, <1>1, LeadsWithin DEF Sane
          <5>3. Past(stack[n], g)'
            BY <5>2, <2>11
          <5> QED
            BY <3>4, <5>3, <2>5
        <4> QED
          BY <4>2, <4>3, <2>5
      <3>5. (\E l \in 1 .. Len(stack) : stack[l].file = g)
            \/ (InARing(g) /\ \E l \in 1 .. Len(stack) : Past(stack[l], g))
        BY <3>1, <1>1 DEF OneWay, PutBackLedTo
      <3> QED
        BY <3>2, <3>3, <3>4, <3>5
    <2> QED
      BY <2>1, <2>9, <2>10, <2>12 DEF OneWay
  <1>5. Len(stack) = 1 \/ Len(stack) > 1
    <2>1. \A m \in Nat \ {0} : m = 1 \/ m > 1
      OBVIOUS
    <2> QED
      BY <1>1, <2>1
  <1> QED
    BY <1>3, <1>4, <1>5

LEMMA StutterOneWay ==
    ASSUME OneWay, UNCHANGED vars
    PROVE  OneWay'
  <1>1. AnyImport' = AnyImport /\ \A g : InARing(g)' <=> InARing(g)
    BY WaysStay DEF vars
  <1>2. PutBackLedTo => PutBackLedTo'
    <2>1. \A l, g : Past(stack[l], g) => Past(stack[l], g)'
      BY <1>1 DEF vars, Past
    <2>2. chain' = chain /\ Unresolved' = Unresolved /\ stack' = stack
      BY DEF vars, Unresolved
    <2> QED
      BY <1>1, <2>1, <2>2 DEF PutBackLedTo
  <1> QED
    BY <1>1, <1>2 DEF vars, OneWay, CallsLead, CyclesUnderWay

LEMMA StepsKeepOneWay ==
    ASSUME IInv, TwoWaysIntoARing \/ OneWay, [Next]_vars
    PROVE  (TwoWaysIntoARing \/ OneWay)'
  <1>1. imports' = imports
    BY DEF Next, Start, SkipMissing, CopyResolved, Descend, MeetCycle, Return, vars
  <1>2. TwoWaysIntoARing' <=> TwoWaysIntoARing
    BY <1>1, WaysStay
  <1>3. OneWay /\ ~TwoWaysIntoARing => OneWay'
    BY StartOneWay, SkipOneWay, CopyOneWay, DescendOneWay, CycleOneWay, ReturnOneWay,
       StutterOneWay DEF Next
  <1> QED
    BY <1>2, <1>3

(* The assertion of resolve_imports only fails over an import graph in      *)
(* which two directives of one file lead to one and the same ring of files: *)
(* every other graph, with any number of rings, is resolved without a       *)
(* panic, whichever order the hash map gives its files in.                  *)
THEOREM PanicsOverTwoWays == Spec => []PanicsNarrow
  <1>1. Init => IInv /\ Sound /\ (TwoWaysIntoARing \/ OneWay)
    BY StartsInIInv, StartsSound, StartsOneWay
  <1>2. IInv /\ Sound /\ (TwoWaysIntoARing \/ OneWay) /\ [Next]_vars
            => (IInv /\ Sound /\ (TwoWaysIntoARing \/ OneWay))'
    BY StepsKeepIInv, StepsKeepOneWay
  <1>3. TwoWaysIntoARing \/ OneWay => PanicsNarrow
    BY DEF OneWay, PanicsNarrow
  <1> QED
    BY <1>1, <1>2, <1>3, PTL DEF Spec
-----------------------------------------------------------------------------
(* That nothing is left out.  With kinds = {"full"} this is about scopes,   *)
(* with all kinds about global using directives: Has(kinds, g) is what a    *)
(* file has, Brought(kinds, f, k) that f has all directive k leads to.      *)
(*                                                                          *)
(* A file that is resolved has all it leads to.  A directive that is no     *)
(* longer in the map, or that the call under way has passed, has brought    *)
(* all it leads to, unless it met a file that has to be resolved later      *)
(* (HeldUp).  What a call under way has gathered is a piece of the graph    *)
(* that is only left, other than by the directives to come, for the files   *)
(* of its cycles: with none of them but itself left, the piece is all there *)
(* is.  What a file has from an earlier walk need not belong to the piece.  *)

KindSets == {{"full"}, {"full", "named"}}

Has(kinds, g) == IF "named" \in kinds THEN Usings(g) ELSE {g} \cup ImportedBy(g)
Counts(kinds, f, k) == imports[f][k].kind \in kinds /\ imports[f][k].dep # Missing
Brought(kinds, f, k) ==
    Counts(kinds, f, k) => Reach(imports[f][k].dep, Closed(kinds)) \subseteq Has(kinds, f)

HeldUp(l, f, k) ==
    /\ imports[f][k].dep \in Unresolved \cap chain
    /\ \A m \in 1 .. Len(stack) : m > l => stack[m].file # imports[f][k].dep

LeftOnlyFor(kinds, T, C) ==
    \A g \in T \cap File : \A k \in DOMAIN imports[g] :
        Counts(kinds, g, k) => imports[g][k].dep \in T \cup C
Piece(kinds, frame, T) ==
    /\ LeftOnlyFor(kinds, T, {frame.file} \cup frame.cycle)
    /\ \A k \in DOMAIN imports[frame.file] \ frame.todo :
          Counts(kinds, frame.file, k)
              => imports[frame.file][k].dep \in T \cup ({frame.file} \cup frame.cycle)

Gathers(kinds, l, frame) ==
    /\ \A k \in DOMAIN imports[frame.file] \ frame.taken : Brought(kinds, frame.file, k)
    /\ \A k \in frame.taken \ frame.todo :
          Brought(kinds, frame.file, k) \/ HeldUp(l, frame.file, k)
    /\ frame.resolved \cap Unresolved = {}
    /\ \E T \in SUBSET Has(kinds, frame.file) : Piece(kinds, frame, T)

HasItself(kinds) == \A f \in File : f \in Has(kinds, f)
HasAll(kinds, f) == Reach(f, Closed(kinds)) \subseteq Has(kinds, f)
OffStack(f) == \A l \in 1 .. Len(stack) : stack[l].file # f
DroppedBrought(kinds, f) == \A k \in DOMAIN imports[f] \ unresolved[f] : Brought(kinds, f, k)

Gathered(kinds) ==
    /\ HasItself(kinds)
    /\ \A f \in File \ Unresolved : HasAll(kinds, f)
    /\ \A f \in Unresolved : OffStack(f) => DroppedBrought(kinds, f)
    /\ \A l \in 1 .. Len(stack) : \A frame \in Frames :
          stack[l] = frame => Gathers(kinds, l, frame)

(* A set that no directive that counts leaves is more than a file in it     *)
(* leads to.                                                                *)
LEMMA ReachWithin ==
    ASSUME NEW kinds, NEW S \in SUBSET Files, NEW f \in S, LeftOnlyFor(kinds, S, {})
    PROVE  Reach(f, Closed(kinds)) \subseteq S
  <1>1. ASSUME NEW g \in S \cap File, NEW i \in ToSet(imports[g]), i.kind \in kinds,
               i.dep # Missing
        PROVE  i.dep \in S
    <2>1. PICK k \in DOMAIN imports[g] : i = imports[g][k]
      BY DEF ToSet
    <2> QED
      BY <1>1, <2>1 DEF LeftOnlyFor, Counts
  <1>2. S \in Closed(kinds)
    BY <1>1 DEF Closed
  <1> QED
    BY <1>2 DEF Reach

(* What a file leads to is such a set. *)
LEMMA ReachLeftForNone ==
    ASSUME IInv, NEW kinds, NEW f
    PROVE  LeftOnlyFor(kinds, Reach(f, Closed(kinds)), {})
  <1> SUFFICES ASSUME NEW g \in Reach(f, Closed(kinds)) \cap File, NEW k \in DOMAIN imports[g],
                      Counts(kinds, g, k)
               PROVE  imports[g][k].dep \in Reach(f, Closed(kinds))
    BY DEF LeftOnlyFor
  <1>1. imports[g][k].dep \in Files
    BY ImportDeps DEF Counts
  <1>2. imports[g][k].dep \in Reach(g, Closed(kinds))
    BY <1>1, ReachStep DEF Counts
  <1> QED
    BY <1>2, ReachTrans

LEMMA HasTypes ==
    ASSUME IInv, NEW kinds, NEW g \in Files
    PROVE  Has(kinds, g) \subseteq Files
  BY DEF IInv, Has, Usings, ImportedBy, Files

(* What a directive that counts gives its file. *)
LEMMA ExtendGives ==
    ASSUME IInv, NEW kinds \in KindSets, NEW f \in File, NEW k \in DOMAIN imports[f],
           imports[f][k].dep \in Files, Extend(f, imports[f][k])
    PROVE  /\ \A g \in Files : Has(kinds, g) \subseteq Has(kinds, g)'
           /\ Counts(kinds, f, k) => Has(kinds, imports[f][k].dep) \subseteq Has(kinds, f)'
  <1> DEFINE i == imports[f][k]
  <1>1. i.kind \in {"full", "named"} /\ i.dep \in Files
    <2>1. i \in Imports
      BY ImportDeps
    <2> QED
      BY <2>1 DEF Imports
  <1>2. /\ Counts(kinds, f, k) => i.kind \in kinds
        /\ "named" \notin kinds => kinds = {"full"}
    BY DEF Counts, KindSets
  <1>3. Extend(f, i)
    OBVIOUS
  <1> HIDE DEF i
  <1>4. /\ \A g \in File : imported[g] \subseteq imported'[g] /\ usings[g] \subseteq usings'[g]
        /\ usings'[f] = usings[f] \cup Usings(i.dep)
        /\ i.kind = "full" => imported'[f] = imported[f] \cup {i.dep} \cup ImportedBy(i.dep)
    BY <1>3 DEF Extend, IInv
  <1>5. \A g \in Files : Has(kinds, g) \subseteq Has(kinds, g)'
    BY <1>4 DEF Has, Usings, ImportedBy
  <1>6. ASSUME Counts(kinds, f, k)
        PROVE  Has(kinds, i.dep) \subseteq Has(kinds, f)'
    <2>1. CASE "named" \in kinds
      BY <2>1, <1>4 DEF Has, Usings
    <2>2. CASE "named" \notin kinds
      <3>1. i.kind = "full"
        BY <1>2, <1>6, <2>2
      <3> QED
        BY <2>2, <3>1, <1>4 DEF Has, ImportedBy
    <2> QED
      BY <2>1, <2>2
  <1> QED
    BY <1>5, <1>6 DEF i

(* What has been brought stays. *)
LEMMA BroughtStays ==
    ASSUME imports' = imports, NEW kinds, NEW f, Has(kinds, f) \subseteq Has(kinds, f)'
    PROVE  /\ HasAll(kinds, f) => HasAll(kinds, f)'
           /\ \A k : Brought(kinds, f, k) => Brought(kinds, f, k)'
           /\ \A k : Counts(kinds, f, k)' <=> Counts(kinds, f, k)
  <1>1. Closed(kinds)' = Closed(kinds)
    BY ClosedStays
  <1> QED
    BY <1>1 DEF HasAll, Brought, Counts

LEMMA PieceStays ==
    ASSUME imports' = imports, NEW kinds, NEW frame, NEW T, Piece(kinds, frame, T)
    PROVE  Piece(kinds, frame, T)'
  BY DEF Piece, LeftOnlyFor, Counts

(* What a call has gathered stays gathered as long as what it met stays held *)
(* up, or is brought.                                                        *)
LEMMA GathersStays ==
    ASSUME imports' = imports, NEW kinds, NEW l, NEW frame, Gathers(kinds, l, frame),
           Has(kinds, frame.file) \subseteq Has(kinds, frame.file)',
           Unresolved' \subseteq Unresolved,
           \A k \in frame.taken \ frame.todo :
               HeldUp(l, frame.file, k) => HeldUp(l, frame.file, k)'
    PROVE  Gathers(kinds, l, frame)'
  <1>1. PICK T \in SUBSET Has(kinds, frame.file) : Piece(kinds, frame, T)
    BY DEF Gathers
  <1>2. T \in SUBSET Has(kinds, frame.file)' /\ Piece(kinds, frame, T)'
    BY <1>1, PieceStays
  <1>3. \A k : Brought(kinds, frame.file, k) => Brought(kinds, frame.file, k)'
    BY BroughtStays
  <1>4. /\ \A k \in DOMAIN imports[frame.file] \ frame.taken : Brought(kinds, frame.file, k)'
        /\ \A k \in frame.taken \ frame.todo :
              Brought(kinds, frame.file, k)' \/ HeldUp(l, frame.file, k)'
        /\ frame.resolved \cap Unresolved' = {}
    BY <1>3 DEF Gathers
  <1> QED
    BY <1>2, <1>4 DEF Gathers

(* What a caller goes on with when the call it waited for has ended.        *)
IsMerged(on, caller, left, f) ==
    /\ on \in Frames /\ on.file = caller.file /\ on.taken = caller.taken
    /\ on.todo = caller.todo \ {First(caller.todo)}
    /\ on.cycle = caller.cycle \cup left
    /\ on.resolved = IF left = {} THEN caller.resolved \cup {f} ELSE caller.resolved

LEMMA MergedFields ==
    ASSUME NEW caller \in Frames, NEW left \in SUBSET File, NEW f \in File,
           NEW on, on = Merged(caller, left, f)
    PROVE  IsMerged(on, caller, left, f)
  <1> DEFINE d == Done(caller)
             cycle == d.cycle \cup left
             resolved == IF left = {} THEN d.resolved \cup {f} ELSE d.resolved
  <1>1. caller.resolved \in SUBSET Files /\ caller.cycle \in SUBSET File
    BY DEF Frames
  <1>2. /\ d \in Frames /\ d.file = caller.file /\ d.taken = caller.taken
        /\ d.todo = caller.todo \ {First(caller.todo)}
        /\ d.resolved = caller.resolved /\ d.cycle = caller.cycle
    BY <1>1, DoneIsFrame
  <1>3. /\ cycle = caller.cycle \cup left /\ cycle \in SUBSET File /\ resolved \in SUBSET Files
        /\ resolved = IF left = {} THEN caller.resolved \cup {f} ELSE caller.resolved
    BY <1>1, <1>2 DEF Files
  <1>4. on = [d EXCEPT !.cycle = cycle, !.resolved = resolved]
    BY DEF Merged
  <1> HIDE DEF d, cycle, resolved
  <1>5. /\ on \in Frames /\ on.file = d.file /\ on.taken = d.taken /\ on.todo = d.todo
        /\ on.cycle = cycle /\ on.resolved = resolved
    BY <1>2, <1>3, <1>4 DEF Frames
  <1> QED
    BY <1>2, <1>3, <1>5 DEF IsMerged

(* Nothing but the innermost call, and what files have, changes.            *)
LEMMA TopGathers ==
    ASSUME IInv, NEW kinds, Gathered(kinds), stack # <<>>,
           UNCHANGED <<imports, unresolved, chain>>,
           NEW next \in Frames, stack' = Append(Below, next), next.file = Top.file,
           \A g \in Files : Has(kinds, g) \subseteq Has(kinds, g)',
           NEW n, n = Len(stack), Gathers(kinds, n, next)'
    PROVE  Gathered(kinds)'
  <1>1. Len(stack) \in Nat \ {0} /\ Top = stack[Len(stack)]
    BY TopIsSane
  <1>2. /\ stack' \in Seq(Frames) /\ Len(stack') = Len(stack)
        /\ \A k \in 1 .. Len(stack) - 1 : stack'[k] = stack[k]
        /\ stack'[Len(stack)] = next
    BY BelowTop
  <1>3. \A k \in 1 .. Len(stack) :
            /\ k \in 1 .. Len(stack) - 1 \/ k = Len(stack)
            /\ stack'[k].file = stack[k].file
    BY <1>1, <1>2
  <1>4. Unresolved' = Unresolved
    BY DEF Unresolved
  <1>5. \A f \in File : f \in Files
    BY DEF Files
  <1>6. HasItself(kinds)'
    BY <1>5 DEF Gathered, HasItself
  <1>7. \A f \in File \ Unresolved : HasAll(kinds, f)'
    BY <1>5, BroughtStays DEF Gathered
  <1>8. ASSUME NEW f \in Unresolved, OffStack(f)'
        PROVE  DroppedBrought(kinds, f)'
    <2>1. f \in File
      BY DEF IInv
    <2>2. OffStack(f)
      BY <1>2, <1>3, <1>8 DEF OffStack
    <2>3. \A k : Brought(kinds, f, k) => Brought(kinds, f, k)'
      BY <1>5, <2>1, BroughtStays
    <2> QED
      BY <2>2, <2>3 DEF Gathered, DroppedBrought
  <1>9. ASSUME NEW l \in 1 .. Len(stack), NEW frame \in Frames, stack'[l] = frame
        PROVE  Gathers(kinds, l, frame)'
    <2>1. CASE l = n
      <3>1. frame = next
        BY <2>1, <1>2, <1>9
      <3> QED
        BY <2>1, <3>1
    <2>2. CASE l # n
      <3>1. stack[l] = frame
        BY <2>2, <1>2, <1>3, <1>9
      <3>2. Gathers(kinds, l, frame)
        BY <3>1 DEF Gathered
      <3>3. frame.file \in Files
        BY <1>5 DEF Frames
      <3>4. \A k : HeldUp(l, frame.file, k) => HeldUp(l, frame.file, k)'
        BY <1>2, <1>3, <1>4 DEF HeldUp
      <3> QED
        BY <3>2, <3>3, <3>4, <1>4, GathersStays
    <2> QED
      BY <2>1, <2>2
  <1> QED
    BY <1>2, <1>4, <1>6, <1>7, <1>8, <1>9 DEF Gathered

(* What the innermost call has gathered. *)
LEMMA TopHasGathered ==
    ASSUME IInv, NEW kinds, Gathered(kinds), stack # <<>>
    PROVE  \E n \in Nat, top \in Frames :
               /\ n = Len(stack) /\ top = Top /\ Gathers(kinds, n, top)
               /\ top.file \in File /\ top.file \in Files
  <1>1. /\ Len(stack) \in 1 .. Len(stack) /\ Len(stack) \in Nat /\ Top = stack[Len(stack)]
        /\ Top \in Frames /\ Top.file \in File
    BY TopIsSane
  <1>2. Gathers(kinds, Len(stack), Top)
    BY <1>1 DEF Gathered
  <1> QED
    BY <1>1, <1>2 DEF Files

(* A directive passed: what it adds to the piece of its call.               *)
LEMMA PassedGathers ==
    ASSUME imports' = imports, NEW kinds, NEW n, NEW frame \in Frames, NEW next \in Frames,
           Gathers(kinds, n, frame), NEW k0,
           next.file = frame.file, next.taken = frame.taken, next.todo = frame.todo \ {k0},
           Has(kinds, frame.file) \subseteq Has(kinds, frame.file)',
           next.resolved \cap Unresolved' = {}, frame.cycle \subseteq next.cycle,
           \A k \in frame.taken \ frame.todo :
               HeldUp(n, frame.file, k) => HeldUp(n, frame.file, k)',
           Brought(kinds, frame.file, k0)' \/ HeldUp(n, frame.file, k0)',
           NEW S, S \subseteq Has(kinds, frame.file)',
           LeftOnlyFor(kinds, S, {frame.file} \cup next.cycle),
           Counts(kinds, frame.file, k0)
               => imports[frame.file][k0].dep \in S \cup ({frame.file} \cup next.cycle)
    PROVE  Gathers(kinds, n, next)'
  <1> DEFINE f == frame.file
  <1>1. PICK T \in SUBSET Has(kinds, f) : Piece(kinds, frame, T)
    BY DEF Gathers
  <1>2. T \cup S \in SUBSET Has(kinds, f)'
    BY <1>1
  <1>3. Piece(kinds, next, T \cup S)
    <2>1. LeftOnlyFor(kinds, T \cup S, {f} \cup next.cycle)
      BY <1>1 DEF Piece, LeftOnlyFor
    <2>2. \A k \in DOMAIN imports[f] \ next.todo :
             Counts(kinds, f, k) => imports[f][k].dep \in (T \cup S) \cup ({f} \cup next.cycle)
      <3> SUFFICES ASSUME NEW k \in DOMAIN imports[f] \ next.todo, Counts(kinds, f, k)
                   PROVE  imports[f][k].dep \in (T \cup S) \cup ({f} \cup next.cycle)
        OBVIOUS
      <3>1. CASE k = k0
        BY <3>1
      <3>2. CASE k # k0
        BY <3>2, <1>1 DEF Piece
      <3> QED
        BY <3>1, <3>2
    <2> QED
      BY <2>1, <2>2 DEF Piece
  <1>4. Piece(kinds, next, T \cup S)'
    BY <1>3, PieceStays
  <1>5. \A k : Brought(kinds, f, k) => Brought(kinds, f, k)'
    BY BroughtStays
  <1>6. /\ \A k \in DOMAIN imports[f] \ next.taken : Brought(kinds, f, k)'
        /\ \A k \in next.taken \ next.todo : Brought(kinds, f, k)' \/ HeldUp(n, f, k)'
    BY <1>5 DEF Gathers
  <1> HIDE DEF f
  <1>7. f = next.file
    BY DEF f
  <1> QED
    BY <1>2, <1>4, <1>6, <1>7 DEF Gathers

(* A file held up stays so when the innermost call goes on. *)
LEMMA TopStays ==
    ASSUME IInv, stack # <<>>, UNCHANGED <<imports, unresolved, chain>>,
           NEW next \in Frames, stack' = Append(Below, next), next.file = Top.file
    PROVE  \A l, f, k : HeldUp(l, f, k) => HeldUp(l, f, k)'
  <1>1. /\ Len(stack) \in Nat \ {0} /\ Top = stack[Len(stack)] /\ Len(stack') = Len(stack)
        /\ \A k \in 1 .. Len(stack) - 1 : stack'[k] = stack[k]
        /\ stack'[Len(stack)] = next
    BY TopIsSane, BelowTop
  <1>2. \A k \in 1 .. Len(stack) : stack'[k].file = stack[k].file
    BY <1>1
  <1>3. Unresolved' = Unresolved
    BY DEF Unresolved
  <1> QED
    BY <1>1, <1>2, <1>3 DEF HeldUp

LEMMA SkipGathers ==
    ASSUME IInv, NEW kinds \in KindSets, Gathered(kinds), SkipMissing
    PROVE  Gathered(kinds)'
  <1>1. stack # <<>> /\ Sane(Top) /\ Top.todo # {}
    BY TopIsSane DEF SkipMissing, HasImport
  <1>2. PICK n \in Nat, top \in Frames :
            /\ n = Len(stack) /\ top = Top /\ Gathers(kinds, n, top)
            /\ top.file \in File /\ top.file \in Files
    BY <1>1, TopHasGathered
  <1>3. PICK k0 : k0 = First(top.todo)
    OBVIOUS
  <1>4. PICK next \in Frames :
            /\ next = Done(top) /\ next.file = top.file /\ next.taken = top.taken
            /\ next.todo = top.todo \ {k0}
            /\ next.resolved = top.resolved /\ next.cycle = top.cycle
    <2>1. top.resolved \in SUBSET Files /\ top.cycle \in SUBSET File
      BY DEF Frames
    <2>2. /\ Done(top) \in Frames /\ Done(top).file = top.file /\ Done(top).taken = top.taken
          /\ Done(top).todo = top.todo \ {First(top.todo)}
          /\ Done(top).resolved = top.resolved /\ Done(top).cycle = top.cycle
      BY <2>1, DoneIsFrame
    <2>3. Done(top).todo = top.todo \ {k0}
      BY <1>3, <2>2, Zenon
    <2> QED
      BY <2>2, <2>3, Zenon
  <1>5. imports[top.file][k0].dep = Missing
    BY <1>2, <1>3 DEF SkipMissing, Import, At
  <1>6. /\ UNCHANGED <<imports, unresolved, chain>> /\ stack' = Append(Below, next)
        /\ Unresolved' = Unresolved
    BY <1>2, <1>4 DEF SkipMissing, Unresolved
  <1>7. \A g : Has(kinds, g)' = Has(kinds, g)
    BY DEF SkipMissing, scopes, Has, Usings, ImportedBy
  <1>8. \A k : HeldUp(n, top.file, k) => HeldUp(n, top.file, k)'
    BY <1>1, <1>2, <1>4, <1>6, TopStays
  <1>9. /\ Brought(kinds, top.file, k0)' /\ ~Counts(kinds, top.file, k0)
    BY <1>5, <1>6 DEF Brought, Counts
  <1>10. PICK S : /\ S \subseteq Has(kinds, top.file)'
                  /\ LeftOnlyFor(kinds, S, {top.file} \cup next.cycle)
    <2>1. LeftOnlyFor(kinds, {}, {top.file} \cup next.cycle)
      BY DEF LeftOnlyFor
    <2> QED
      BY <2>1
  <1>11. next.resolved \cap Unresolved' = {}
    BY <1>2, <1>4, <1>6 DEF Gathers
  <1>12. Gathers(kinds, n, next)'
    <2>1. Has(kinds, top.file) \subseteq Has(kinds, top.file)' /\ top.cycle \subseteq next.cycle
      BY <1>4, <1>7, Zenon
    <2>2. /\ imports' = imports /\ Gathers(kinds, n, top)
          /\ next.file = top.file /\ next.taken = top.taken /\ next.todo = top.todo \ {k0}
      BY <1>2, <1>4, <1>6, Zenon
    <2> QED
      BY <1>8, <1>9, <1>10, <1>11, <2>1, <2>2, PassedGathers, Zenon
  <1> QED
    BY <1>1, <1>2, <1>4, <1>6, <1>7, <1>12, TopGathers

(* A file of another root has all it leads to: itself. *)
LEMMA ForeignHasAll ==
    ASSUME IInv, NEW kinds, NEW g \in Foreign
    PROVE  HasAll(kinds, g)
  <1>1. g \notin File /\ {g} \subseteq Files
    BY GraphsAssumption DEF Files
  <1>2. LeftOnlyFor(kinds, {g}, {})
    BY <1>1 DEF LeftOnlyFor
  <1>3. Reach(g, Closed(kinds)) \subseteq {g}
    BY <1>1, <1>2, ReachWithin
  <1>4. g \in Has(kinds, g)
    BY <1>1 DEF Has, Usings
  <1> QED
    BY <1>3, <1>4 DEF HasAll

LEMMA CopyGathers ==
    ASSUME IInv, NEW kinds \in KindSets, Gathered(kinds), CopyResolved
    PROVE  Gathered(kinds)'
  <1>1. stack # <<>> /\ Sane(Top) /\ Top.todo # {}
    BY TopIsSane DEF CopyResolved, HasImport
  <1>2. PICK n \in Nat, top \in Frames :
            /\ n = Len(stack) /\ top = Top /\ Gathers(kinds, n, top)
            /\ top.file \in File /\ top.file \in Files
    BY <1>1, TopHasGathered
  <1>3. PICK k0, d : /\ k0 = First(top.todo) /\ k0 \in DOMAIN imports[top.file]
                     /\ d = imports[top.file][k0].dep /\ Import = imports[top.file][k0]
    BY <1>1, <1>2, AtSane DEF Import
  <1>4. d \in (File \cup Foreign) \ Unresolved /\ d \in Files
    BY <1>3 DEF CopyResolved, Files
  <1>5. PICK next \in Frames :
            /\ next = [Done(top) EXCEPT !.resolved = @ \cup {d}]
            /\ next.file = top.file /\ next.taken = top.taken
            /\ next.todo = top.todo \ {k0}
            /\ next.resolved = top.resolved \cup {d} /\ next.cycle = top.cycle
    <2> DEFINE more == [Done(top) EXCEPT !.resolved = @ \cup {d}]
    <2>1. /\ more \in Frames /\ more.file = top.file /\ more.taken = top.taken
          /\ more.todo = top.todo \ {First(top.todo)}
          /\ more.resolved = top.resolved \cup {d} /\ more.cycle = top.cycle
      BY <1>4, DoneResolving
    <2> HIDE DEF more
    <2>2. /\ more \in Frames /\ more.file = top.file /\ more.taken = top.taken
          /\ more.todo = top.todo \ {k0}
          /\ more.resolved = top.resolved \cup {d} /\ more.cycle = top.cycle
      BY <1>3, <2>1
    <2> QED
      BY <2>2 DEF more
  <1>6. /\ UNCHANGED <<imports, unresolved, chain>> /\ stack' = Append(Below, next)
        /\ Unresolved' = Unresolved /\ Extend(top.file, imports[top.file][k0])
    BY <1>2, <1>3, <1>5 DEF CopyResolved, Unresolved
  <1>7. /\ \A g \in Files : Has(kinds, g) \subseteq Has(kinds, g)'
        /\ Counts(kinds, top.file, k0) => Has(kinds, d) \subseteq Has(kinds, top.file)'
    BY <1>2, <1>3, <1>4, <1>6, ExtendGives
  <1>8. \A k : HeldUp(n, top.file, k) => HeldUp(n, top.file, k)'
    BY <1>1, <1>2, <1>5, <1>6, TopStays
  <1>9. Reach(d, Closed(kinds)) \subseteq Has(kinds, d)
    BY <1>4, ForeignHasAll DEF Gathered, HasAll
  <1>10. Brought(kinds, top.file, k0)'
    <2>1. Counts(kinds, top.file, k0) => Reach(d, Closed(kinds)) \subseteq Has(kinds, top.file)'
      BY <1>7, <1>9
    <2>2. Closed(kinds)' = Closed(kinds)
      BY <1>6, ClosedStays
    <2> QED
      BY <1>3, <1>6, <2>1, <2>2 DEF Brought, Counts
  <1>11. PICK S : /\ S \subseteq Has(kinds, top.file)'
                  /\ LeftOnlyFor(kinds, S, {top.file} \cup next.cycle)
                  /\ Counts(kinds, top.file, k0) => d \in S
    <2>1. CASE Counts(kinds, top.file, k0)
      <3>1. LeftOnlyFor(kinds, Reach(d, Closed(kinds)), {top.file} \cup next.cycle)
        BY ReachLeftForNone DEF LeftOnlyFor
      <3>2. d \in Reach(d, Closed(kinds))
        BY <1>4, ReachSelf
      <3> QED
        BY <2>1, <3>1, <3>2, <1>7, <1>9
    <2>2. CASE ~Counts(kinds, top.file, k0)
      <3>1. LeftOnlyFor(kinds, {}, {top.file} \cup next.cycle)
        BY DEF LeftOnlyFor
      <3> QED
        BY <2>2, <3>1
    <2> QED
      BY <2>1, <2>2
  <1>12. next.resolved \cap Unresolved' = {}
    BY <1>2, <1>4, <1>5, <1>6 DEF Gathers
  <1>13. Gathers(kinds, n, next)'
    <2>1. Counts(kinds, top.file, k0)
              => imports[top.file][k0].dep \in S \cup ({top.file} \cup next.cycle)
      BY <1>3, <1>11
    <2>2. Has(kinds, top.file) \subseteq Has(kinds, top.file)' /\ top.cycle \subseteq next.cycle
      BY <1>2, <1>5, <1>7
    <2>3. /\ imports' = imports /\ Gathers(kinds, n, top)
          /\ next.file = top.file /\ next.taken = top.taken /\ next.todo = top.todo \ {k0}
      BY <1>2, <1>5, <1>6, Zenon
    <2> QED
      BY <1>8, <1>10, <1>11, <1>12, <2>1, <2>2, <2>3, PassedGathers, Zenon
  <1> QED
    BY <1>1, <1>2, <1>5, <1>6, <1>7, <1>13, TopGathers

LEMMA CycleGathers ==
    ASSUME IInv, NEW kinds \in KindSets, Gathered(kinds), MeetCycle
    PROVE  Gathered(kinds)'
  <1>1. stack # <<>> /\ Sane(Top) /\ Top.todo # {}
    BY TopIsSane DEF MeetCycle, HasImport
  <1>2. PICK n \in Nat, top \in Frames :
            /\ n = Len(stack) /\ top = Top /\ Gathers(kinds, n, top)
            /\ top.file \in File /\ top.file \in Files
    BY <1>1, TopHasGathered
  <1>3. PICK k0, d : /\ k0 = First(top.todo) /\ k0 \in DOMAIN imports[top.file]
                     /\ d = imports[top.file][k0].dep /\ Import = imports[top.file][k0]
    BY <1>1, <1>2, AtSane DEF Import
  <1>4. d \in Unresolved \cap chain /\ d \in File
    BY <1>3 DEF MeetCycle, IInv
  <1>5. PICK next \in Frames :
            /\ next = [Done(top) EXCEPT !.cycle = @ \cup {d}]
            /\ next.file = top.file /\ next.taken = top.taken
            /\ next.todo = top.todo \ {k0}
            /\ next.resolved = top.resolved /\ next.cycle = top.cycle \cup {d}
    <2> DEFINE more == [Done(top) EXCEPT !.cycle = @ \cup {d}]
    <2>1. /\ more \in Frames /\ more.file = top.file /\ more.taken = top.taken
          /\ more.todo = top.todo \ {First(top.todo)}
          /\ more.cycle = top.cycle \cup {d} /\ more.resolved = top.resolved
      BY <1>4, DoneCycling
    <2> HIDE DEF more
    <2>2. /\ more \in Frames /\ more.file = top.file /\ more.taken = top.taken
          /\ more.todo = top.todo \ {k0}
          /\ more.resolved = top.resolved /\ more.cycle = top.cycle \cup {d}
      BY <1>3, <2>1
    <2> QED
      BY <2>2 DEF more
  <1>6. /\ UNCHANGED <<imports, unresolved, chain>> /\ stack' = Append(Below, next)
        /\ Unresolved' = Unresolved
    BY <1>2, <1>3, <1>5 DEF MeetCycle, Unresolved
  <1>7. \A g : Has(kinds, g)' = Has(kinds, g)
    BY DEF MeetCycle, scopes, Has, Usings, ImportedBy
  <1>8. \A k : HeldUp(n, top.file, k) => HeldUp(n, top.file, k)'
    BY <1>1, <1>2, <1>5, <1>6, TopStays
  <1>9. HeldUp(n, top.file, k0)'
    <2>1. Len(stack') = n
      BY <1>1, <1>2, <1>5, <1>6, BelowTop
    <2>2. \A m \in 1 .. n : ~(m > n)
      BY <1>2
    <2> QED
      BY <1>3, <1>4, <1>6, <2>1, <2>2 DEF HeldUp
  <1>10. PICK S : /\ S \subseteq Has(kinds, top.file)'
                  /\ LeftOnlyFor(kinds, S, {top.file} \cup next.cycle)
    <2>1. LeftOnlyFor(kinds, {}, {top.file} \cup next.cycle)
      BY DEF LeftOnlyFor
    <2> QED
      BY <2>1
  <1>11. next.resolved \cap Unresolved' = {}
    BY <1>2, <1>5, <1>6 DEF Gathers
  <1>12. Gathers(kinds, n, next)'
    <2>1. imports[top.file][k0].dep \in S \cup ({top.file} \cup next.cycle)
      BY <1>3, <1>5
    <2>2. Has(kinds, top.file) \subseteq Has(kinds, top.file)' /\ top.cycle \subseteq next.cycle
      BY <1>5, <1>7
    <2>3. /\ imports' = imports /\ Gathers(kinds, n, top)
          /\ next.file = top.file /\ next.taken = top.taken /\ next.todo = top.todo \ {k0}
      BY <1>2, <1>5, <1>6, Zenon
    <2> QED
      BY <1>8, <1>9, <1>10, <1>11, <2>1, <2>2, <2>3, PassedGathers, Zenon
  <1> QED
    BY <1>1, <1>2, <1>5, <1>6, <1>7, <1>12, TopGathers

(* A call that begins has all it leads to that is not in the map any more.  *)
LEMMA FrameGathers ==
    ASSUME IInv, NEW kinds, imports' = imports, NEW f \in Unresolved,
           DroppedBrought(kinds, f), Has(kinds, f) = Has(kinds, f)',
           NEW n, NEW frame, frame = Frame(f)
    PROVE  Gathers(kinds, n, frame)'
  <1> DEFINE Past0 == {k \in DOMAIN imports[f] \ unresolved[f] : Counts(kinds, f, k)}
             T == UNION {Reach(imports[f][k].dep, Closed(kinds)) : k \in Past0}
  <1>1. /\ frame.file = f /\ frame.taken = unresolved[f] /\ frame.todo = unresolved[f]
        /\ frame.resolved = {} /\ frame.cycle = {}
    BY DEF Frame
  <1>2. T \subseteq Has(kinds, f)
    <2> SUFFICES ASSUME NEW k \in Past0
                 PROVE  Reach(imports[f][k].dep, Closed(kinds)) \subseteq Has(kinds, f)
      OBVIOUS
    <2> QED
      BY DEF DroppedBrought, Brought
  <1>3. Piece(kinds, frame, T)
    <2>1. ASSUME NEW g \in T \cap File, NEW k \in DOMAIN imports[g], Counts(kinds, g, k)
          PROVE  imports[g][k].dep \in T
      <3>1. PICK j \in Past0 : g \in Reach(imports[f][j].dep, Closed(kinds))
        OBVIOUS
      <3>2. imports[g][k].dep \in Reach(imports[f][j].dep, Closed(kinds))
        <4>1. LeftOnlyFor(kinds, Reach(imports[f][j].dep, Closed(kinds)), {})
          BY ReachLeftForNone
        <4> QED
          BY <2>1, <3>1, <4>1 DEF LeftOnlyFor
      <3> QED
        BY <3>2
    <2>2. ASSUME NEW k \in DOMAIN imports[f] \ frame.todo, Counts(kinds, f, k)
          PROVE  imports[f][k].dep \in T
      <3>1. k \in Past0
        BY <1>1, <2>2
      <3>2. f \in File
        BY DEF IInv
      <3>3. imports[f][k].dep \in Files
        BY <2>2, <3>2, ImportDeps DEF Counts
      <3>4. imports[f][k].dep \in Reach(imports[f][k].dep, Closed(kinds))
        BY <3>3, ReachSelf
      <3> QED
        BY <3>1, <3>4
    <2> HIDE DEF T
    <2> QED
      BY <1>1, <2>1, <2>2 DEF Piece, LeftOnlyFor
  <1> HIDE DEF T
  <1>4. PICK S : S \subseteq Has(kinds, f) /\ Piece(kinds, frame, S)
    BY <1>2, <1>3
  <1>7. S \in SUBSET Has(kinds, frame.file)' /\ Piece(kinds, frame, S)'
    BY <1>1, <1>4, PieceStays
  <1>5. \A k : Brought(kinds, f, k) => Brought(kinds, f, k)'
    BY BroughtStays
  <1>6. \A k \in DOMAIN imports[f] \ frame.taken : Brought(kinds, f, k)'
    BY <1>1, <1>5 DEF DroppedBrought
  <1> QED
    BY <1>1, <1>6, <1>7 DEF Gathers

(* A call is made: the others wait, with what they have gathered.           *)
LEMMA CallGathers ==
    ASSUME IInv, NEW kinds \in KindSets, Gathered(kinds), imports' = imports, UNCHANGED scopes,
           NEW f \in Unresolved, Take(f), OffStack(f), stack' = Append(stack, Frame(f)),
           stack # <<>> => f \notin chain /\ chain \subseteq chain'
    PROVE  Gathered(kinds)'
  <1>1. /\ f \in File /\ Frame(f) \in Frames /\ Frame(f).file = f
        /\ Len(stack') = Len(stack) + 1
        /\ \A k \in 1 .. Len(stack) : stack'[k] = stack[k]
        /\ stack'[Len(stack) + 1] = Frame(f)
        /\ \A k \in 1 .. Len(stack') : k \in 1 .. Len(stack) \/ k = Len(stack) + 1
    BY Called
  <1>2. Len(stack) \in Nat
    BY DEF IInv, Calls
  <1>3. /\ Unresolved' = Unresolved
        /\ \A g \in Unresolved \ {f} : unresolved'[g] = unresolved[g]
    BY DEF Take, Unresolved
  <1>4. \A g : Has(kinds, g)' = Has(kinds, g)
    BY DEF scopes, Has, Usings, ImportedBy
  <1>5. \A g : /\ HasAll(kinds, g) => HasAll(kinds, g)'
               /\ \A k : Brought(kinds, g, k) => Brought(kinds, g, k)'
    BY <1>4, BroughtStays
  <1>6. DroppedBrought(kinds, f)
    BY DEF Gathered
  <1>7. ASSUME NEW g \in Unresolved, OffStack(g)'
        PROVE  DroppedBrought(kinds, g)'
    <2>1. OffStack(g) /\ g # f
      <3>1. \A k \in 1 .. Len(stack) : k \in 1 .. Len(stack')
        BY <1>1, <1>2
      <3>2. Len(stack) + 1 \in 1 .. Len(stack')
        BY <1>1, <1>2
      <3> QED
        BY <3>1, <3>2, <1>1, <1>7 DEF OffStack
    <2> QED
      BY <2>1, <1>3, <1>5 DEF Gathered, DroppedBrought
  <1>8. ASSUME NEW l \in 1 .. Len(stack'), NEW frame \in Frames, stack'[l] = frame
        PROVE  Gathers(kinds, l, frame)'
    <2>1. CASE l = Len(stack) + 1
      <3>1. frame = Frame(f)
        BY <2>1, <1>1, <1>8
      <3> QED
        BY <3>1, <1>4, <1>6, FrameGathers
    <2>2. CASE l \in 1 .. Len(stack)
      <3>1. Gathers(kinds, l, frame)
        BY <2>2, <1>1, <1>8 DEF Gathered
      <3>2. ASSUME NEW k, HeldUp(l, frame.file, k)
            PROVE  HeldUp(l, frame.file, k)'
        <4>1. PICK d : d = imports[frame.file][k].dep
          OBVIOUS
        <4>2. d \in Unresolved \cap chain /\ \A m \in 1 .. Len(stack) : m > l => stack[m].file # d
          BY <3>2, <4>1 DEF HeldUp
        <4>3. stack # <<>>
          BY <2>2
        <4>4. d \in Unresolved' \cap chain' /\ d # f
          BY <4>2, <4>3, <1>3
        <4>5. \A m \in 1 .. Len(stack') : m > l => stack'[m].file # d
          BY <4>2, <4>4, <1>1
        <4> QED
          BY <4>1, <4>4, <4>5 DEF HeldUp
      <3> QED
        BY <3>1, <3>2, <1>3, <1>4, GathersStays
    <2> QED
      BY <2>1, <2>2, <1>1
  <1>9. HasItself(kinds)' /\ \A g \in File \ Unresolved' : HasAll(kinds, g)'
    BY <1>3, <1>4, <1>5 DEF Gathered, HasItself
  <1> QED
    BY <1>3, <1>7, <1>8, <1>9 DEF Gathered

LEMMA StartGathers ==
    ASSUME IInv, NEW kinds \in KindSets, Gathered(kinds), NEW f \in File, Start(f)
    PROVE  Gathered(kinds)'
  <1>1. stack = <<>> /\ Len(stack) = 0 /\ f \in Unresolved /\ Take(f) /\ imports' = imports
    BY DEF Start
  <1>2. stack' = Append(stack, Frame(f)) /\ UNCHANGED scopes
    BY <1>1 DEF Start
  <1>3. OffStack(f)
    BY <1>1 DEF OffStack
  <1> QED
    BY <1>1, <1>2, <1>3, CallGathers

LEMMA DescendGathers ==
    ASSUME IInv, NEW kinds \in KindSets, Gathered(kinds), Descend
    PROVE  Gathered(kinds)'
  <1>1. PICK f : f = Import.dep
    OBVIOUS
  <1>2. /\ f \in Unresolved /\ f \notin chain /\ chain \subseteq chain' /\ Take(f)
        /\ imports' = imports /\ stack' = Append(stack, Frame(f)) /\ UNCHANGED scopes
    BY <1>1 DEF Descend
  <1>3. OffStack(f)
    <2> SUFFICES ASSUME NEW l \in 1 .. Len(stack)
                 PROVE  stack[l].file # f
      BY DEF OffStack
    <2>1. Sane(stack[l])
      BY DEF IInv, Calls
    <2> QED
      BY <2>1, <1>2 DEF Sane
  <1> QED
    BY <1>2, <1>3, CallGathers

(* What the innermost call has gathered when it ends: with no cycle left,   *)
(* all its file leads to.                                                   *)
LEMMA EndGathers ==
    ASSUME IInv, NEW kinds \in KindSets, Gathered(kinds), NEW n, NEW top \in Frames,
           top.todo = {}, Gathers(kinds, n, top)
    PROVE  /\ \E S : /\ S \subseteq Has(kinds, top.file) /\ top.file \in S
                     /\ LeftOnlyFor(kinds, S, Remaining(top))
           /\ Remaining(top) = {} => HasAll(kinds, top.file)
  <1>1. top.file \in File /\ top.file \in Files /\ top.file \in Has(kinds, top.file)
    BY DEF Frames, Files, Gathered, HasItself
  <1>2. PICK T \in SUBSET Has(kinds, top.file) : Piece(kinds, top, T)
    BY DEF Gathers
  <1>3. PICK S : S = T \cup {top.file}
    OBVIOUS
  <1>4. S \subseteq Has(kinds, top.file) /\ top.file \in S /\ S \subseteq Files
    BY <1>1, <1>2, <1>3, HasTypes
  <1>5. LeftOnlyFor(kinds, S, Remaining(top))
    <2> SUFFICES ASSUME NEW g \in S \cap File, NEW k \in DOMAIN imports[g], Counts(kinds, g, k)
                 PROVE  imports[g][k].dep \in S \cup Remaining(top)
      BY DEF LeftOnlyFor
    <2>1. imports[g][k].dep \in T \cup ({top.file} \cup top.cycle)
      <3>1. CASE g \in T
        BY <3>1, <1>2 DEF Piece, LeftOnlyFor
      <3>2. CASE g = top.file
        BY <3>2, <1>2 DEF Piece
      <3> QED
        BY <3>1, <3>2, <1>3
    <2> QED
      BY <2>1, <1>3 DEF Remaining
  <1>6. Remaining(top) = {} => HasAll(kinds, top.file)
    BY <1>4, <1>5, ReachWithin DEF HasAll
  <1> QED
    BY <1>4, <1>5, <1>6

(* A call that is put back only drops directives that have brought all.     *)
LEMMA PutBackGathers ==
    ASSUME IInv, NEW kinds, imports' = imports, NEW n, NEW top, Sane(top),
           top.todo = {}, Gathers(kinds, n, top), PutBack(top),
           Has(kinds, top.file) \subseteq Has(kinds, top.file)'
    PROVE  DroppedBrought(kinds, top.file)'
  <1>1. PICK f : f = top.file
    OBVIOUS
  <1>2. unresolved'[f] = {k \in top.taken : imports[f][k].dep \notin top.resolved}
    BY <1>1 DEF PutBack, Sane, Unresolved
  <1>3. ASSUME NEW k \in DOMAIN imports[f] \ unresolved'[f]
        PROVE  Brought(kinds, f, k)
    <2>1. CASE k \notin top.taken
      BY <2>1, <1>1 DEF Gathers
    <2>2. CASE k \in top.taken /\ imports[f][k].dep \in top.resolved
      <3>1. imports[f][k].dep \notin Unresolved
        BY <2>2 DEF Gathers
      <3>2. ~HeldUp(n, f, k)
        BY <3>1 DEF HeldUp
      <3> QED
        BY <2>2, <3>2, <1>1 DEF Gathers
    <2> QED
      BY <2>1, <2>2, <1>2
  <1>4. \A k : Brought(kinds, f, k) => Brought(kinds, f, k)'
    BY <1>1, BroughtStays
  <1>5. DroppedBrought(kinds, f)'
    BY <1>3, <1>4 DEF DroppedBrought
  <1> QED
    BY <1>1, <1>5

(* The end of the innermost call, for the files that have no call then and  *)
(* for the calls that go on.                                                *)
LEMMA LeaveGathers ==
    ASSUME IInv, NEW kinds \in KindSets, Gathered(kinds), imports' = imports,
           stack # <<>>, Top.todo = {}, Leave(Top),
           \A g \in Files : Has(kinds, g) \subseteq Has(kinds, g)',
           NEW n \in Nat, n = Len(stack) - 1, Len(stack') = n,
           \A l \in 1 .. n : stack'[l].file = stack[l].file
    PROVE  /\ HasItself(kinds)'
           /\ \A f \in File \ Unresolved' : HasAll(kinds, f)'
           /\ \A f \in Unresolved' : OffStack(f)' => DroppedBrought(kinds, f)'
           /\ \A l \in 1 .. n : \A f, k : HeldUp(l, f, k) => HeldUp(l, f, k)'
           /\ \A l \in 1 .. n : \A frame \in Frames :
                 stack[l] = frame => Gathers(kinds, l, frame)'
  <1>1. PICK m \in Nat, top \in Frames :
            /\ m = Len(stack) /\ top = Top /\ Gathers(kinds, m, top)
            /\ top.file \in File /\ top.file \in Files
    BY TopHasGathered
  <1>2. Sane(top) /\ top.todo = {} /\ m = n + 1 /\ stack[m] = top
    BY <1>1, TopIsSane
  <1>3. /\ Unresolved' \subseteq Unresolved
        /\ \A g \in Unresolved \ {top.file} :
              g \in Unresolved' /\ unresolved'[g] = unresolved[g]
        /\ chain \ {top.file} \subseteq chain'
        /\ Remaining(top) = {} => top.file \notin Unresolved'
    BY <1>1, <1>2, LeaveOne
  <1>4. \A f \in File : f \in Files
    BY DEF Files
  <1>5. HasItself(kinds)'
    BY <1>4 DEF Gathered, HasItself
  <1>6. ASSUME NEW f \in File \ Unresolved'
        PROVE  HasAll(kinds, f)'
    <2>1. CASE f = top.file
      <3>1. Remaining(top) = {}
        <4>1. ASSUME Remaining(top) # {}
              PROVE  FALSE
          <5>1. PutBack(top)
            BY <4>1, <1>1 DEF Leave
          <5>2. Unresolved' = Unresolved
            BY <5>1 DEF PutBack, Unresolved
          <5> QED
            BY <5>2, <2>1, <1>2 DEF Sane
        <4> QED
          BY <4>1
      <3>2. HasAll(kinds, f)
        BY <2>1, <3>1, <1>1, <1>2, EndGathers
      <3> QED
        BY <3>2, <1>4, BroughtStays
    <2>2. CASE f # top.file
      <3>1. HasAll(kinds, f)
        BY <2>2, <1>3 DEF Gathered
      <3> QED
        BY <3>1, <1>4, BroughtStays
    <2> QED
      BY <2>1, <2>2
  <1>7. ASSUME NEW f \in Unresolved', OffStack(f)'
        PROVE  DroppedBrought(kinds, f)'
    <2>1. f \in Unresolved /\ f \in File
      BY <1>3 DEF IInv
    <2>2. CASE f = top.file
      <3>1. PutBack(top)
        BY <2>2, <1>1, <1>3 DEF Leave
      <3> QED
        BY <2>2, <3>1, <1>1, <1>2, PutBackGathers
    <2>3. CASE f # top.file
      <3>1. OffStack(f)
        <4>1. \A l \in 1 .. Len(stack) : l \in 1 .. n \/ l = m
          BY <1>1, <1>2
        <4> QED
          BY <4>1, <2>3, <1>2, <1>7 DEF OffStack
      <3>2. DroppedBrought(kinds, f)
        BY <2>1, <3>1 DEF Gathered
      <3>3. \A k : Brought(kinds, f, k) => Brought(kinds, f, k)'
        BY <2>1, <1>4, BroughtStays
      <3> QED
        BY <2>1, <2>3, <3>2, <3>3, <1>3 DEF DroppedBrought
    <2> QED
      BY <2>2, <2>3
  <1>8. ASSUME NEW l \in 1 .. n, NEW f, NEW k, HeldUp(l, f, k)
        PROVE  HeldUp(l, f, k)'
    <2>1. PICK d : d = imports[f][k].dep
      OBVIOUS
    <2>2. d \in Unresolved \cap chain /\ \A j \in 1 .. Len(stack) : j > l => stack[j].file # d
      BY <1>8, <2>1 DEF HeldUp
    <2>3. m \in 1 .. Len(stack) /\ m > l /\ \A j \in 1 .. n : j \in 1 .. Len(stack)
      BY <1>1, <1>2
    <2>4. d # top.file
      BY <2>2, <2>3, <1>2
    <2>5. d \in Unresolved' \cap chain'
      BY <2>2, <2>4, <1>3
    <2>6. \A j \in 1 .. n : j > l => stack'[j].file # d
      BY <2>2, <2>3
    <2> QED
      BY <2>1, <2>5, <2>6 DEF HeldUp
  <1>9. ASSUME NEW l \in 1 .. n, NEW frame \in Frames, stack[l] = frame
        PROVE  Gathers(kinds, l, frame)'
    <2>1. l \in 1 .. Len(stack)
      BY <1>1, <1>2
    <2>2. Gathers(kinds, l, frame) /\ frame.file \in Files
      BY <2>1, <1>4, <1>9 DEF Gathered, Frames
    <2> QED
      BY <2>2, <1>3, <1>8, GathersStays
  <1> QED
    BY <1>5, <1>6, <1>7, <1>8, <1>9

LEMMA ReturnGathers ==
    ASSUME IInv, NEW kinds \in KindSets, Gathered(kinds), Return
    PROVE  Gathered(kinds)'
  <1>1. /\ stack # <<>> /\ Leave(Top) /\ imports' = imports /\ Top.todo = {}
        /\ Len(stack) \in Nat \ {0} /\ Sane(Top)
    BY TopIsSane DEF Return
  <1>2. CASE Len(stack) = 1
    <2>1. stack' = <<>> /\ UNCHANGED scopes
      BY <1>1, <1>2 DEF Return
    <2>2. \A g : Has(kinds, g)' = Has(kinds, g)
      BY <2>1 DEF scopes, Has, Usings, ImportedBy
    <2>3. PICK n \in Nat : n = Len(stack) - 1 /\ Len(stack') = n
      BY <2>1, <1>2
    <2>4. \A l \in 1 .. n : FALSE
      BY <2>3, <1>2
    <2>5. /\ HasItself(kinds)' /\ \A f \in File \ Unresolved' : HasAll(kinds, f)'
          /\ \A f \in Unresolved' : OffStack(f)' => DroppedBrought(kinds, f)'
      BY <2>2, <2>3, <2>4, <1>1, LeaveGathers
    <2> QED
      BY <2>3, <2>4, <2>5 DEF Gathered
  <1>3. CASE Len(stack) > 1
    <2>1. PICK m \in Nat, top \in Frames :
              /\ m = Len(stack) /\ top = Top /\ Gathers(kinds, m, top)
              /\ top.file \in File /\ top.file \in Files
      BY <1>1, TopHasGathered
    <2>2. PICK left : left = Remaining(top) /\ left \in SUBSET File
      <3>1. Remaining(top) \in SUBSET File
        BY DEF Remaining, Frames
      <3> QED
        BY <3>1
    <2>3. PICK n, caller :
              /\ n = Len(stack) - 1 /\ n \in Nat /\ n \in 1 .. Len(stack)
              /\ caller = Below[Len(Below)] /\ caller = stack[n]
              /\ Sane(caller) /\ caller \in Frames /\ caller.file \in File
              /\ caller.todo # {} /\ At(caller).dep = top.file
      BY <2>1, <1>1, <1>3, CallerWaits
    <2>4. PICK on : on = Merged(caller, left, top.file)
      OBVIOUS
    <2>5. /\ stack' = Append(Front(Below), on) /\ Extend(caller.file, At(caller))
      BY <2>1, <2>2, <2>3, <2>4, <1>1, <1>3 DEF Return, Merged
    <2>6. PICK k0 : /\ k0 = First(caller.todo) /\ k0 \in DOMAIN imports[caller.file]
                    /\ At(caller) = imports[caller.file][k0]
      BY <2>3, AtSane
    <2>7. /\ on \in Frames /\ on.file = caller.file /\ on.taken = caller.taken
          /\ on.todo = caller.todo \ {k0} /\ on.cycle = caller.cycle \cup left
          /\ on.resolved = IF left = {} THEN caller.resolved \cup {top.file}
                                          ELSE caller.resolved
      <3>1. caller \in Frames /\ left \in SUBSET File /\ top.file \in File
        BY <2>1, <2>2, <2>3
      <3>2. IsMerged(on, caller, left, top.file)
        BY <3>1, <2>4, MergedFields
      <3>3. k0 = First(caller.todo)
        BY <2>6
      <3> QED
        BY <3>2, <3>3 DEF IsMerged
    <2>8. /\ stack' \in Seq(Frames) /\ Len(stack') = n /\ stack'[n] = on
          /\ \A l \in 1 .. n : l # n => stack'[l] = stack[l]
      BY <2>3, <2>5, <2>7, <1>1, <1>3, Returned
    <2>9. /\ \A g \in Files : Has(kinds, g) \subseteq Has(kinds, g)'
          /\ Counts(kinds, caller.file, k0)
                 => Has(kinds, top.file) \subseteq Has(kinds, caller.file)'
      BY <2>1, <2>3, <2>5, <2>6, ExtendGives
    <2>10. /\ HasItself(kinds)' /\ \A f \in File \ Unresolved' : HasAll(kinds, f)'
           /\ \A f \in Unresolved' : OffStack(f)' => DroppedBrought(kinds, f)'
           /\ \A l \in 1 .. n : \A f, k : HeldUp(l, f, k) => HeldUp(l, f, k)'
           /\ \A l \in 1 .. n : \A frame \in Frames :
                 stack[l] = frame => Gathers(kinds, l, frame)'
      <3>1. \A l \in 1 .. n : stack'[l].file = stack[l].file
        BY <2>3, <2>7, <2>8
      <3> QED
        BY <3>1, <2>3, <2>8, <2>9, <1>1, LeaveGathers
    <2>11. /\ Unresolved' \subseteq Unresolved
           /\ left = {} => top.file \notin Unresolved'
           /\ left # {} => top.file \in Unresolved' \cap chain'
      <3>1. Unresolved' \subseteq Unresolved /\ (left = {} => top.file \notin Unresolved')
        BY <2>1, <2>2, <1>1, LeaveOne
      <3>2. ASSUME left # {}
            PROVE  top.file \in Unresolved' \cap chain'
        <4>1. PutBack(top)
          BY <3>2, <2>1, <2>2, <1>1 DEF Leave
        <4> QED
          BY <4>1, <2>1, <1>1 DEF PutBack, Unresolved, Sane
      <3> QED
        BY <3>1, <3>2
    <2>12. PICK S0 : /\ S0 \subseteq Has(kinds, top.file) /\ top.file \in S0
                     /\ LeftOnlyFor(kinds, S0, left) /\ (left = {} => HasAll(kinds, top.file))
      BY <2>1, <2>2, <1>1, EndGathers
    <2>13. imports[caller.file][k0].dep = top.file
      BY <2>3, <2>6
    <2>14. Brought(kinds, caller.file, k0)' \/ HeldUp(n, caller.file, k0)'
      <3>1. CASE left = {}
        <4>1. Counts(kinds, caller.file, k0)
                  => Reach(top.file, Closed(kinds)) \subseteq Has(kinds, caller.file)'
          BY <3>1, <2>9, <2>12 DEF HasAll
        <4>2. Closed(kinds)' = Closed(kinds)
          BY <1>1, ClosedStays
        <4> QED
          BY <4>1, <4>2, <2>13, <1>1 DEF Brought, Counts
      <3>2. CASE left # {}
        <4>1. \A j \in 1 .. n : ~(j > n)
          BY <2>3
        <4> QED
          BY <3>2, <4>1, <2>8, <2>11, <2>13, <1>1 DEF HeldUp
      <3> QED
        BY <3>1, <3>2
    <2>15. PICK S : /\ S \subseteq Has(kinds, caller.file)'
                    /\ LeftOnlyFor(kinds, S, {caller.file} \cup on.cycle)
                    /\ Counts(kinds, caller.file, k0) => top.file \in S
      <3>1. CASE Counts(kinds, caller.file, k0)
        <4>1. LeftOnlyFor(kinds, S0, {caller.file} \cup on.cycle)
          BY <2>7, <2>12 DEF LeftOnlyFor
        <4> QED
          BY <3>1, <4>1, <2>9, <2>12
      <3>2. CASE ~Counts(kinds, caller.file, k0)
        <4>1. LeftOnlyFor(kinds, {}, {caller.file} \cup on.cycle)
          BY DEF LeftOnlyFor
        <4> QED
          BY <3>2, <4>1
      <3> QED
        BY <3>1, <3>2
    <2>16. Gathers(kinds, n, caller) /\ caller.file \in Files
      BY <2>3 DEF Gathered, Files
    <2>17. on.resolved \cap Unresolved' = {}
      BY <2>7, <2>11, <2>16 DEF Gathers
    <2>18. Gathers(kinds, n, on)'
      <3>1. Counts(kinds, caller.file, k0)
                => imports[caller.file][k0].dep \in S \cup ({caller.file} \cup on.cycle)
        BY <2>13, <2>15
      <3>2. Has(kinds, caller.file) \subseteq Has(kinds, caller.file)'
            /\ caller.cycle \subseteq on.cycle
        BY <2>7, <2>9, <2>16
      <3>3. \A k \in caller.taken \ caller.todo :
               HeldUp(n, caller.file, k) => HeldUp(n, caller.file, k)'
        <4>1. n \in 1 .. n
          BY <2>3
        <4> QED
          BY <4>1, <2>10
      <3> QED
        BY <1>1, <2>3, <2>7, <2>14, <2>15, <2>16, <2>17, <3>1, <3>2, <3>3, PassedGathers
    <2>19. ASSUME NEW l \in 1 .. n, NEW frame \in Frames, stack'[l] = frame
           PROVE  Gathers(kinds, l, frame)'
      <3>1. CASE l = n
        BY <3>1, <2>8, <2>18, <2>19
      <3>2. CASE l # n
        BY <3>2, <2>8, <2>10, <2>19
      <3> QED
        BY <3>1, <3>2
    <2> QED
      BY <2>8, <2>10, <2>19 DEF Gathered
  <1>4. Len(stack) = 1 \/ Len(stack) > 1
    <2>1. \A m \in Nat \ {0} : m = 1 \/ m > 1
      OBVIOUS
    <2> QED
      BY <1>1, <2>1
  <1> QED
    BY <1>2, <1>3, <1>4

LEMMA StutterGathers ==
    ASSUME IInv, NEW kinds, Gathered(kinds), UNCHANGED vars
    PROVE  Gathered(kinds)'
  <1>1. /\ imports' = imports /\ unresolved' = unresolved /\ stack' = stack /\ chain' = chain
        /\ Unresolved' = Unresolved
    BY DEF vars, Unresolved
  <1>2. \A g : Has(kinds, g)' = Has(kinds, g)
    BY DEF vars, scopes, Has, Usings, ImportedBy
  <1>3. \A f : /\ HasAll(kinds, f) => HasAll(kinds, f)'
               /\ \A k : Brought(kinds, f, k) => Brought(kinds, f, k)'
    BY <1>1, <1>2, BroughtStays
  <1>4. ASSUME NEW l \in 1 .. Len(stack), NEW frame \in Frames, stack[l] = frame
        PROVE  Gathers(kinds, l, frame)'
    <2>1. Gathers(kinds, l, frame)
      BY <1>4 DEF Gathered
    <2>2. \A k : HeldUp(l, frame.file, k) => HeldUp(l, frame.file, k)'
      BY <1>1 DEF HeldUp
    <2> QED
      BY <2>1, <2>2, <1>1, <1>2, GathersStays
  <1>5. \A f : OffStack(f)' <=> OffStack(f)
    BY <1>1 DEF OffStack
  <1> QED
    BY <1>1, <1>2, <1>3, <1>4, <1>5 DEF Gathered, HasItself, DroppedBrought

LEMMA StartsGathered ==
    ASSUME Init, NEW kinds \in KindSets
    PROVE  Gathered(kinds)
  <1>1. IInv /\ Len(stack) = 0
    BY StartsInIInv DEF Init
  <1>2. HasItself(kinds)
    BY DEF Init, HasItself, Has, Usings
  <1>3. ASSUME NEW f \in File \ Unresolved
        PROVE  HasAll(kinds, f)
    <2>1. imports[f] = <<>>
      BY DEF Init, Unresolved
    <2>2. LeftOnlyFor(kinds, {f}, {})
      BY <2>1 DEF LeftOnlyFor
    <2>3. Reach(f, Closed(kinds)) \subseteq {f}
      BY <2>2, ReachWithin DEF Files
    <2> QED
      BY <2>3, <1>2 DEF HasAll, HasItself
  <1>4. \A f \in Unresolved : DroppedBrought(kinds, f)
    BY DEF Init, Unresolved, DroppedBrought
  <1> QED
    BY <1>1, <1>2, <1>3, <1>4 DEF Gathered

LEMMA StepsGather ==
    ASSUME IInv, NEW kinds \in KindSets, Gathered(kinds), [Next]_vars
    PROVE  Gathered(kinds)'
  BY StartGathers, SkipGathers, CopyGathers, DescendGathers, CycleGathers, ReturnGathers,
     StutterGathers DEF Next

(* Once every file is resolved, all has been gathered. *)
LEMMA AllGathered ==
    ASSUME IInv, Sound, Gathered({"full"}), Gathered({"full", "named"})
    PROVE  Complete
  <1> SUFFICES ASSUME Finished, NEW f \in File
               PROVE  /\ {f} \cup imported[f] = Reach(f, Closed({"full"}))
                      /\ usings[f] = Reach(f, Closed({"full", "named"}))
    BY DEF Complete
  <1>1. f \notin Unresolved /\ f \in Files
    BY DEF Finished, Files
  <1>2. Has({"full"}, f) = {f} \cup imported[f] /\ Has({"full", "named"}, f) = usings[f]
    BY DEF Has, ImportedBy, Usings
  <1>3. /\ Reach(f, Closed({"full"})) \subseteq {f} \cup imported[f]
        /\ Reach(f, Closed({"full", "named"})) \subseteq usings[f]
    BY <1>1, <1>2 DEF Gathered, HasAll
  <1>4. /\ imported[f] \subseteq Reach(f, Closed({"full"}))
        /\ usings[f] \subseteq Reach(f, Closed({"full", "named"}))
    BY DEF Sound
  <1>5. f \in Reach(f, Closed({"full"}))
    BY <1>1, ReachSelf
  <1> QED
    BY <1>3, <1>4, <1>5

(* Unless its assertion fails, resolve_imports leaves every file of every   *)
(* import graph with all the scopes and all the global using directives its *)
(* imports lead to, whichever files the walks start from: what is met in a  *)
(* cycle and put back is not forgotten, and no more is there than leads to. *)
THEOREM NothingLeftOut == Spec => []Complete
  <1> DEFINE Inv == IInv /\ Sound /\ Gathered({"full"}) /\ Gathered({"full", "named"})
  <1>1. {"full"} \in KindSets /\ {"full", "named"} \in KindSets
    BY DEF KindSets
  <1>2. Init => Inv
    BY <1>1, StartsInIInv, StartsSound, StartsGathered
  <1>3. Inv /\ [Next]_vars => Inv'
    BY <1>1, StepsKeepIInv, StepsGather
  <1>4. Inv => Complete
    BY AllGathered
  <1> QED
    BY <1>2, <1>3, <1>4, PTL DEF Spec

-----------------------------------------------------------------------------
(* That named imports are found.  Without cycles of several files, a walk   *)
(* only ever meets the file it is at: nothing is put back, a call has taken *)
(* all the directives of its file, and those it has passed are of itself or *)
(* of files that are resolved, which lead to resolved files only and whose  *)
(* names no longer change.                                                  *)

Found(f, k) ==
    /\ imports[f][k].kind = "named" /\ imports[f][k].dep \notin {Missing, f}
    /\ imports[f][k].symbol \in Offers(imports[f][k].dep, Closed({"full"}))
    => imports[f][k].symbol \in names[f]

Settled(f, k) == imports[f][k].dep \notin Unresolved

PassedFound(frame) ==
    /\ frame.cycle \subseteq {frame.file} /\ frame.taken = DOMAIN imports[frame.file]
    /\ \A k \in DOMAIN imports[frame.file] \ frame.todo :
          /\ imports[frame.file][k].dep = frame.file \/ Settled(frame.file, k)
          /\ Found(frame.file, k)

AllFound(f) == \A k \in DOMAIN imports[f] : Settled(f, k) /\ Found(f, k)

FoundSoFar ==
    /\ \A f \in File \ Unresolved : AllFound(f)
    /\ \A l \in 1 .. Len(stack) : \A frame \in Frames :
          stack[l] = frame => PassedFound(frame)
    /\ \A f \in Unresolved : OffStack(f) => unresolved[f] = DOMAIN imports[f]
    /\ \A f \in Unresolved \cap chain : ~OffStack(f)

(* Names are only added, and not to files that are resolved. *)
NamesGrow == /\ \A g \in File : names[g] \subseteq names'[g]
             /\ \A g \in File \ Unresolved : names'[g] = names[g]

(* What a file offers lies within any set that no import of everything      *)
(* leaves: it stays when the names of those files do.                       *)
LEMMA OffersStay ==
    ASSUME imports' = imports, NEW S \in SUBSET Files, LeftOnlyFor({"full"}, S, {}), NEW g \in S,
           \A h \in S \cap File : names'[h] = names[h]
    PROVE  Offers(g, Closed({"full"}))' = Offers(g, Closed({"full"}))
  <1>1. Closed({"full"})' = Closed({"full"})
    BY ClosedStays
  <1>2. Reach(g, Closed({"full"})) \subseteq S
    BY ReachWithin
  <1>3. \A h \in Reach(g, Closed({"full"})) : Names(h)' = Names(h)
    BY <1>2 DEF Names
  <1> QED
    BY <1>1, <1>3 DEF Offers

(* Resolved files lead to resolved files. *)
LEMMA ResolvedWithin ==
    ASSUME IInv, FoundSoFar, NEW kinds
    PROVE  /\ Files \ Unresolved \in SUBSET Files
           /\ LeftOnlyFor(kinds, Files \ Unresolved, {})
  <1> SUFFICES ASSUME NEW g \in File \ Unresolved, NEW k \in DOMAIN imports[g],
                      Counts(kinds, g, k)
               PROVE  imports[g][k].dep \in Files \ Unresolved
    BY DEF LeftOnlyFor
  <1>1. imports[g][k].dep \in Files
    BY ImportDeps DEF Counts
  <1>2. imports[g][k].dep \notin Unresolved
    BY DEF FoundSoFar, AllFound, Settled
  <1> QED
    BY <1>1, <1>2

(* So do those and a file whose call has passed all its directives. *)
LEMMA EndWithin ==
    ASSUME IInv, FoundSoFar, NEW kinds, NEW top \in Frames, PassedFound(top), top.todo = {}
    PROVE  LeftOnlyFor(kinds, (Files \ Unresolved) \cup {top.file}, {})
  <1>1. top.file \in File
    BY DEF Frames
  <1>2. LeftOnlyFor(kinds, Files \ Unresolved, {})
    BY ResolvedWithin
  <1>3. ASSUME NEW k \in DOMAIN imports[top.file], Counts(kinds, top.file, k)
        PROVE  imports[top.file][k].dep \in (Files \ Unresolved) \cup {top.file}
    <2>1. imports[top.file][k].dep \in Files
      BY <1>1, <1>3, ImportDeps DEF Counts
    <2>2. imports[top.file][k].dep = top.file \/ imports[top.file][k].dep \notin Unresolved
      BY DEF PassedFound, Settled
    <2> QED
      BY <2>1, <2>2
  <1> QED
    BY <1>2, <1>3 DEF LeftOnlyFor

(* What was found stays found. *)
LEMMA FoundStays ==
    ASSUME IInv, FoundSoFar, imports' = imports, NamesGrow,
           NEW f \in File, NEW k \in DOMAIN imports[f],
           Found(f, k), imports[f][k].dep = f \/ Settled(f, k)
    PROVE  Found(f, k)'
  <1> SUFFICES ASSUME imports[f][k].kind = "named", imports[f][k].dep \notin {Missing, f},
                      imports[f][k].symbol \in Offers(imports[f][k].dep, Closed({"full"}))'
               PROVE  imports[f][k].symbol \in names'[f]
    BY DEF Found
  <1>1. PICK d : d = imports[f][k].dep
    OBVIOUS
  <1>2. d \in Files \ Unresolved
    <2>1. d \in Files /\ d # f
      BY <1>1, ImportDeps
    <2> QED
      BY <2>1, <1>1 DEF Settled
  <1>3. PICK S \in SUBSET Files : S = Files \ Unresolved /\ LeftOnlyFor({"full"}, S, {})
    BY ResolvedWithin
  <1>4. \A h \in S \cap File : names'[h] = names[h]
    BY <1>3 DEF NamesGrow
  <1>5. Offers(d, Closed({"full"}))' = Offers(d, Closed({"full"}))
    BY <1>2, <1>3, <1>4, OffersStay
  <1>6. imports[f][k].symbol \in Offers(d, Closed({"full"}))
    BY <1>1, <1>5
  <1> QED
    BY <1>1, <1>6 DEF Found, NamesGrow

(* A directive only gives names to its own file, which loses none. *)
LEMMA ExtendNames ==
    ASSUME IInv, NEW f \in File, NEW i, Extend(f, i)
    PROVE  /\ \A g \in File : names[g] \subseteq names'[g]
           /\ \A g \in File : g # f => names'[g] = names[g]
           /\ i.kind = "named" /\ i.symbol \in Visible(i.dep) => i.symbol \in names'[f]
  BY DEF Extend, IInv

(* A named import finds what the imported file, having all it leads to,     *)
(* offers: none of its files is the one that imports.                       *)
LEMMA ExtendFinds ==
    ASSUME IInv, imports' = imports, NEW f \in File, NEW k \in DOMAIN imports[f],
           NEW S \in SUBSET Files, LeftOnlyFor({"full"}, S, {}), f \notin S,
           NEW d \in S, d = imports[f][k].dep, HasAll({"full"}, d), Extend(f, imports[f][k])
    PROVE  Found(f, k)'
  <1> SUFFICES ASSUME imports[f][k].kind = "named",
                      imports[f][k].symbol \in Offers(d, Closed({"full"}))'
               PROVE  imports[f][k].symbol \in names'[f]
    BY DEF Found
  <1>1. \A g \in S \cap File : names'[g] = names[g]
    BY ExtendNames
  <1>2. imports[f][k].symbol \in Offers(d, Closed({"full"}))
    BY <1>1, OffersStay
  <1>3. PICK h \in Reach(d, Closed({"full"})) : imports[f][k].symbol \in Names(h)
    BY <1>2 DEF Offers
  <1>4. h \in {d} \cup ImportedBy(d)
    BY <1>3 DEF HasAll, Has
  <1>5. imports[f][k].symbol \in Visible(d)
    BY <1>3, <1>4 DEF Visible
  <1> QED
    BY <1>5, ExtendNames

(* What a call under way has found stays found. *)
LEMMA PassedStays ==
    ASSUME IInv, FoundSoFar, imports' = imports, Unresolved' \subseteq Unresolved, NamesGrow,
           NEW frame \in Frames, PassedFound(frame)
    PROVE  PassedFound(frame)'
  <1>1. frame.file \in File
    BY DEF Frames
  <1>2. ASSUME NEW k \in DOMAIN imports[frame.file] \ frame.todo
        PROVE  /\ imports[frame.file][k].dep = frame.file \/ Settled(frame.file, k)'
               /\ Found(frame.file, k)'
    <2>1. /\ imports[frame.file][k].dep = frame.file \/ Settled(frame.file, k)
          /\ Found(frame.file, k)
      BY DEF PassedFound
    <2>2. Found(frame.file, k)'
      BY <1>1, <2>1, FoundStays
    <2> QED
      BY <2>1, <2>2 DEF Settled
  <1> QED
    BY <1>2 DEF PassedFound

(* The call passes a directive. *)
LEMMA NextPassed ==
    ASSUME IInv, FoundSoFar, imports' = imports, Unresolved' \subseteq Unresolved, NamesGrow,
           NEW frame \in Frames, PassedFound(frame), NEW k0,
           NEW next, next.file = frame.file, next.taken = frame.taken,
           next.todo = frame.todo \ {k0}, next.cycle \subseteq {frame.file},
           imports[frame.file][k0].dep = frame.file \/ Settled(frame.file, k0)',
           Found(frame.file, k0)'
    PROVE  PassedFound(next)'
  <1>1. PassedFound(frame)'
    BY PassedStays
  <1>2. next.taken = DOMAIN imports[next.file]
    BY DEF PassedFound
  <1>3. ASSUME NEW k \in DOMAIN imports[frame.file] \ next.todo
        PROVE  /\ imports[frame.file][k].dep = frame.file \/ Settled(frame.file, k)'
               /\ Found(frame.file, k)'
    <2>1. CASE k = k0
      BY <2>1
    <2>2. CASE k # k0
      <3>1. k \in DOMAIN imports[frame.file] \ frame.todo
        BY <2>2
      <3> QED
        BY <3>1, <1>1 DEF PassedFound
    <2> QED
      BY <2>1, <2>2
  <1> QED
    BY <1>2, <1>3 DEF PassedFound

(* What files that are resolved have found stays found. *)
LEMMA AllFoundStays ==
    ASSUME IInv, FoundSoFar, imports' = imports, Unresolved' \subseteq Unresolved, NamesGrow,
           NEW f \in File \ Unresolved
    PROVE  AllFound(f)'
  <1>1. \A k \in DOMAIN imports[f] : Settled(f, k) /\ Found(f, k)
    BY DEF FoundSoFar, AllFound
  <1>2. \A k \in DOMAIN imports[f] : Found(f, k)'
    BY <1>1, FoundStays
  <1> QED
    BY <1>1, <1>2 DEF AllFound, Settled

(* Nothing but the innermost call, and names, changes. *)
LEMMA TopFinds ==
    ASSUME IInv, FoundSoFar, stack # <<>>, UNCHANGED <<imports, unresolved, chain>>, NamesGrow,
           NEW next \in Frames, stack' = Append(Below, next), next.file = Top.file,
           PassedFound(next)'
    PROVE  FoundSoFar'
  <1>1. Len(stack) \in Nat \ {0} /\ Top = stack[Len(stack)]
    BY TopIsSane
  <1>2. /\ stack' \in Seq(Frames) /\ Len(stack') = Len(stack)
        /\ \A k \in 1 .. Len(stack) - 1 : stack'[k] = stack[k]
        /\ stack'[Len(stack)] = next
    BY BelowTop
  <1>3. \A k \in 1 .. Len(stack) :
            /\ k \in 1 .. Len(stack) - 1 \/ k = Len(stack)
            /\ stack'[k].file = stack[k].file
    BY <1>1, <1>2
  <1>4. Unresolved' = Unresolved
    BY DEF Unresolved
  <1>5. \A f : OffStack(f)' <=> OffStack(f)
    BY <1>2, <1>3 DEF OffStack
  <1>6. \A f \in File \ Unresolved : AllFound(f)'
    BY <1>4, AllFoundStays
  <1>7. ASSUME NEW l \in 1 .. Len(stack), NEW frame \in Frames, stack'[l] = frame
        PROVE  PassedFound(frame)'
    <2>1. CASE l = Len(stack)
      BY <2>1, <1>2, <1>7
    <2>2. CASE l # Len(stack)
      <3>1. stack[l] = frame
        BY <2>2, <1>2, <1>3, <1>7
      <3>2. PassedFound(frame)
        BY <3>1 DEF FoundSoFar
      <3> QED
        BY <3>2, <1>4, PassedStays
    <2> QED
      BY <2>1, <2>2
  <1> QED
    BY <1>2, <1>4, <1>5, <1>6, <1>7 DEF FoundSoFar

(* The innermost call and its directive. *)
LEMMA TopHasFound ==
    ASSUME IInv, FoundSoFar, stack # <<>>
    PROVE  \E top \in Frames : /\ top = Top /\ PassedFound(top) /\ top.file \in File
                               /\ top.file \in Unresolved
  <1>1. Len(stack) \in 1 .. Len(stack) /\ Top = stack[Len(stack)] /\ Top \in Frames /\ Sane(Top)
    BY TopIsSane
  <1>2. PassedFound(Top) /\ Top.file \in File /\ Top.file \in Unresolved
    BY <1>1 DEF FoundSoFar, Sane, Frames
  <1> QED
    BY <1>1, <1>2

LEMMA SkipFinds ==
    ASSUME IInv, FoundSoFar, SkipMissing
    PROVE  FoundSoFar'
  <1>1. stack # <<>> /\ Sane(Top) /\ Top.todo # {}
    BY TopIsSane DEF SkipMissing, HasImport
  <1>2. PICK top \in Frames : top = Top /\ PassedFound(top) /\ top.file \in File
    BY <1>1, TopHasFound
  <1>3. PICK k0 : k0 = First(top.todo) /\ Import = imports[top.file][k0]
    BY <1>1, <1>2, AtSane DEF Import
  <1>4. PICK next \in Frames :
            /\ next = Done(top) /\ next.file = top.file /\ next.taken = top.taken
            /\ next.todo = top.todo \ {k0} /\ next.cycle = top.cycle
    <2>1. top.resolved \in SUBSET Files /\ top.cycle \in SUBSET File
      BY DEF Frames
    <2>2. /\ Done(top) \in Frames /\ Done(top).file = top.file /\ Done(top).taken = top.taken
          /\ Done(top).todo = top.todo \ {First(top.todo)} /\ Done(top).cycle = top.cycle
      BY <2>1, DoneIsFrame
    <2>3. Done(top).todo = top.todo \ {k0}
      BY <1>3, <2>2, Zenon
    <2> QED
      BY <2>2, <2>3, Zenon
  <1>5. /\ UNCHANGED <<imports, unresolved, chain>> /\ stack' = Append(Below, next)
        /\ Unresolved' = Unresolved /\ names' = names
    BY <1>2, <1>4 DEF SkipMissing, Unresolved, scopes
  <1>6. NamesGrow
    BY <1>5 DEF NamesGrow
  <1>7. imports[top.file][k0].dep = Missing /\ Missing \notin Unresolved
    BY <1>3, GraphsAssumption DEF SkipMissing, IInv
  <1>8. Settled(top.file, k0)' /\ Found(top.file, k0)'
    BY <1>5, <1>7 DEF Settled, Found
  <1>9. next.cycle \subseteq {top.file}
    BY <1>2, <1>4 DEF PassedFound
  <1>10. PassedFound(next)'
    BY <1>2, <1>4, <1>5, <1>6, <1>8, <1>9, NextPassed
  <1> QED
    BY <1>1, <1>2, <1>4, <1>5, <1>6, <1>10, TopFinds

LEMMA CopyFinds ==
    ASSUME IInv, Gathered({"full"}), FoundSoFar, CopyResolved
    PROVE  FoundSoFar'
  <1>1. stack # <<>> /\ Sane(Top) /\ Top.todo # {}
    BY TopIsSane DEF CopyResolved, HasImport
  <1>2. PICK top \in Frames : /\ top = Top /\ PassedFound(top) /\ top.file \in File
                              /\ top.file \in Unresolved
    BY <1>1, TopHasFound
  <1>3. PICK k0, d : /\ k0 = First(top.todo) /\ k0 \in DOMAIN imports[top.file]
                     /\ d = imports[top.file][k0].dep /\ Import = imports[top.file][k0]
    BY <1>1, <1>2, AtSane DEF Import
  <1>4. d \in (File \cup Foreign) \ Unresolved /\ d \in Files
    BY <1>3 DEF CopyResolved, Files
  <1>5. PICK next \in Frames :
            /\ next = [Done(top) EXCEPT !.resolved = @ \cup {d}]
            /\ next.file = top.file /\ next.taken = top.taken
            /\ next.todo = top.todo \ {k0} /\ next.cycle = top.cycle
    <2> DEFINE more == [Done(top) EXCEPT !.resolved = @ \cup {d}]
    <2>1. /\ more \in Frames /\ more.file = top.file /\ more.taken = top.taken
          /\ more.todo = top.todo \ {First(top.todo)} /\ more.cycle = top.cycle
      BY <1>4, DoneResolving
    <2> HIDE DEF more
    <2>2. /\ more \in Frames /\ more.file = top.file /\ more.taken = top.taken
          /\ more.todo = top.todo \ {k0} /\ more.cycle = top.cycle
      BY <1>3, <2>1
    <2> QED
      BY <2>2 DEF more
  <1>6. /\ UNCHANGED <<imports, unresolved, chain>> /\ stack' = Append(Below, next)
        /\ Unresolved' = Unresolved /\ Extend(top.file, imports[top.file][k0])
    BY <1>2, <1>3, <1>5 DEF CopyResolved, Unresolved
  <1>7. NamesGrow
    BY <1>2, <1>6, ExtendNames DEF NamesGrow
  <1>8. PICK S \in SUBSET Files : S = Files \ Unresolved /\ LeftOnlyFor({"full"}, S, {})
    BY ResolvedWithin
  <1>9. d \in S /\ top.file \notin S /\ HasAll({"full"}, d)
    BY <1>2, <1>4, <1>8, ForeignHasAll DEF Gathered
  <1>10. Found(top.file, k0)'
    BY <1>2, <1>3, <1>6, <1>8, <1>9, ExtendFinds
  <1>11. Settled(top.file, k0)'
    BY <1>3, <1>4, <1>6 DEF Settled
  <1>12. next.cycle \subseteq {top.file}
    BY <1>2, <1>5 DEF PassedFound
  <1>13. PassedFound(next)'
    BY <1>2, <1>5, <1>6, <1>7, <1>10, <1>11, <1>12, NextPassed
  <1> QED
    BY <1>1, <1>2, <1>5, <1>6, <1>7, <1>13, TopFinds

(* Without cycles of several files only the file itself is met again. *)
LEMMA CycleFinds ==
    ASSUME IInv, OneWay, Acyclic, FoundSoFar, MeetCycle
    PROVE  FoundSoFar'
  <1>1. stack # <<>> /\ Sane(Top) /\ Top.todo # {}
    BY TopIsSane DEF MeetCycle, HasImport
  <1>2. PICK top \in Frames : top = Top /\ PassedFound(top) /\ top.file \in File
    BY <1>1, TopHasFound
  <1>3. PICK k0, d : /\ k0 = First(top.todo) /\ k0 \in DOMAIN imports[top.file]
                     /\ d = imports[top.file][k0].dep /\ Import = imports[top.file][k0]
    BY <1>1, <1>2, AtSane DEF Import
  <1>4. d \in Unresolved \cap chain /\ d \in File
    BY <1>3 DEF MeetCycle, IInv
  <1>5. d = top.file
    <2>1. PICK l \in 1 .. Len(stack) : stack[l].file = d
      BY <1>4 DEF FoundSoFar, OffStack
    <2>2. l <= Len(stack) /\ Len(stack) \in 1 .. Len(stack) /\ Top = stack[Len(stack)]
      <3>1. Len(stack) \in Nat \ {0} /\ Top = stack[Len(stack)]
        BY <1>1, TopIsSane
      <3> QED
        BY <3>1
    <2>3. top.file \in Reach(d, AnyImport)
      BY <1>2, <2>1, <2>2 DEF OneWay, CallsLead
    <2>4. d # Missing /\ d \in Reach(d, AnyImport)
      BY <1>4, GraphsAssumption, ReachSelf DEF Files
    <2>5. d \in LeadsTo(imports[top.file][k0], AnyImport)
      BY <1>3, <2>4 DEF LeadsTo
    <2>6. d \in Reach(top.file, AnyImport)
      BY <1>2, <1>3, <2>5, LeadsWithin
    <2>7. d \in Ring(top.file, AnyImport)
      BY <1>4, <2>3, <2>6 DEF Ring
    <2> QED
      BY <1>2, <2>7 DEF Acyclic, AnyImport
  <1>6. PICK next \in Frames :
            /\ next = [Done(top) EXCEPT !.cycle = @ \cup {d}]
            /\ next.file = top.file /\ next.taken = top.taken
            /\ next.todo = top.todo \ {k0} /\ next.cycle = top.cycle \cup {d}
    <2> DEFINE more == [Done(top) EXCEPT !.cycle = @ \cup {d}]
    <2>1. /\ more \in Frames /\ more.file = top.file /\ more.taken = top.taken
          /\ more.todo = top.todo \ {First(top.todo)} /\ more.cycle = top.cycle \cup {d}
      BY <1>4, DoneCycling
    <2> HIDE DEF more
    <2>2. /\ more \in Frames /\ more.file = top.file /\ more.taken = top.taken
          /\ more.todo = top.todo \ {k0} /\ more.cycle = top.cycle \cup {d}
      BY <1>3, <2>1
    <2> QED
      BY <2>2 DEF more
  <1>7. /\ UNCHANGED <<imports, unresolved, chain>> /\ stack' = Append(Below, next)
        /\ Unresolved' = Unresolved /\ names' = names
    BY <1>2, <1>3, <1>6 DEF MeetCycle, Unresolved, scopes
  <1>8. NamesGrow
    BY <1>7 DEF NamesGrow
  <1>9. imports[top.file][k0].dep = top.file /\ Found(top.file, k0)'
    BY <1>3, <1>5, <1>7 DEF Found
  <1>10. next.cycle \subseteq {top.file}
    BY <1>2, <1>5, <1>6 DEF PassedFound
  <1>11. PassedFound(next)'
    BY <1>2, <1>6, <1>7, <1>8, <1>9, <1>10, NextPassed
  <1> QED
    BY <1>1, <1>2, <1>6, <1>7, <1>8, <1>11, TopFinds

(* A file that is called for has not been called for before. *)
LEMMA CallFinds ==
    ASSUME IInv, FoundSoFar, imports' = imports, UNCHANGED scopes,
           NEW f \in Unresolved, Take(f), OffStack(f), stack' = Append(stack, Frame(f)),
           \A g \in chain' : g = f \/ g \in chain \/ g \notin Unresolved
    PROVE  FoundSoFar'
  <1>1. /\ f \in File /\ Frame(f) \in Frames /\ Frame(f).file = f
        /\ Frame(f).taken = unresolved[f] /\ Frame(f).todo = unresolved[f] /\ Frame(f).cycle = {}
        /\ Len(stack') = Len(stack) + 1
        /\ \A k \in 1 .. Len(stack) : stack'[k] = stack[k]
        /\ stack'[Len(stack) + 1] = Frame(f)
        /\ \A k \in 1 .. Len(stack') : k \in 1 .. Len(stack) \/ k = Len(stack) + 1
    BY Called
  <1>2. Len(stack) \in Nat
    BY DEF IInv, Calls
  <1>3. /\ Unresolved' = Unresolved
        /\ \A g \in Unresolved \ {f} : unresolved'[g] = unresolved[g]
    BY DEF Take, Unresolved
  <1>4. NamesGrow
    BY DEF NamesGrow, scopes
  <1>5. unresolved[f] = DOMAIN imports[f]
    BY DEF FoundSoFar
  <1>6. \A k \in 1 .. Len(stack) : k \in 1 .. Len(stack')
    BY <1>1, <1>2
  <1>7. Len(stack) + 1 \in 1 .. Len(stack')
    BY <1>1, <1>2
  <1>8. ~OffStack(f)' /\ \A g : OffStack(g)' => OffStack(g)
    BY <1>1, <1>6, <1>7 DEF OffStack
  <1>9. \A g \in File \ Unresolved' : AllFound(g)'
    BY <1>3, <1>4, AllFoundStays
  <1>10. \A g \in Unresolved' : OffStack(g)' => unresolved'[g] = DOMAIN imports'[g]
    BY <1>3, <1>8 DEF FoundSoFar
  <1>11. \A g \in Unresolved' \cap chain' : ~OffStack(g)'
    BY <1>3, <1>8 DEF FoundSoFar
  <1>12. ASSUME NEW l \in 1 .. Len(stack'), NEW frame \in Frames, stack'[l] = frame
         PROVE  PassedFound(frame)'
    <2>1. CASE l = Len(stack) + 1
      <3>1. frame = Frame(f)
        BY <2>1, <1>1, <1>12
      <3>2. /\ frame.file = f /\ frame.taken = DOMAIN imports[f] /\ frame.cycle = {}
            /\ frame.todo = DOMAIN imports[f]
        BY <3>1, <1>1, <1>5
      <3> QED
        BY <3>2 DEF PassedFound
    <2>2. CASE l \in 1 .. Len(stack)
      <3>1. PassedFound(frame)
        BY <2>2, <1>1, <1>12 DEF FoundSoFar
      <3> QED
        BY <3>1, <1>3, <1>4, PassedStays
    <2> QED
      BY <2>1, <2>2, <1>1
  <1> QED
    BY <1>9, <1>10, <1>11, <1>12 DEF FoundSoFar

LEMMA StartFinds ==
    ASSUME IInv, FoundSoFar, NEW f \in File, Start(f)
    PROVE  FoundSoFar'
  <1>1. stack = <<>> /\ Len(stack) = 0 /\ f \in Unresolved /\ Take(f) /\ imports' = imports
    BY DEF Start
  <1>2. stack' = Append(stack, Frame(f)) /\ UNCHANGED scopes /\ chain' = {f}
    BY <1>1 DEF Start
  <1>3. OffStack(f)
    BY <1>1 DEF OffStack
  <1> QED
    BY <1>1, <1>2, <1>3, CallFinds

LEMMA DescendFinds ==
    ASSUME IInv, FoundSoFar, Descend
    PROVE  FoundSoFar'
  <1>1. PICK f : f = Import.dep
    OBVIOUS
  <1>2. /\ f \in Unresolved /\ f \notin chain /\ chain' = chain \cup {f} /\ Take(f)
        /\ imports' = imports /\ stack' = Append(stack, Frame(f)) /\ UNCHANGED scopes
    BY <1>1 DEF Descend
  <1>3. OffStack(f)
    <2> SUFFICES ASSUME NEW l \in 1 .. Len(stack)
                 PROVE  stack[l].file # f
      BY DEF OffStack
    <2>1. Sane(stack[l])
      BY DEF IInv, Calls
    <2> QED
      BY <2>1, <1>2 DEF Sane
  <1> QED
    BY <1>2, <1>3, CallFinds

(* A file whose call is over is resolved, with all its directives found. *)
LEMMA LeaveFinds ==
    ASSUME IInv, FoundSoFar, imports' = imports, NEW top \in Frames, PassedFound(top),
           top.file \in Unresolved, top.todo = {}, Leave(top), NamesGrow
    PROVE  /\ Remaining(top) = {} /\ Unresolved' = Unresolved \ {top.file}
           /\ \A g \in Unresolved' : unresolved'[g] = unresolved[g]
           /\ chain' = chain \ {top.file}
           /\ \A f \in File \ Unresolved' : AllFound(f)'
  <1>1. Remaining(top) = {}
    BY DEF Remaining, PassedFound
  <1>2. Finish(top.file)
    BY <1>1 DEF Leave
  <1>3. /\ Unresolved' = Unresolved \ {top.file} /\ chain' = chain \ {top.file}
        /\ \A g \in Unresolved' : unresolved'[g] = unresolved[g]
    BY <1>2 DEF Finish, Unresolved
  <1>4. PassedFound(top)'
    BY <1>3, PassedStays
  <1>5. AllFound(top.file)'
    <2> SUFFICES ASSUME NEW k \in DOMAIN imports'[top.file]
                 PROVE  Settled(top.file, k)' /\ Found(top.file, k)'
      BY DEF AllFound
    <2>1. /\ imports'[top.file][k].dep = top.file \/ Settled(top.file, k)'
          /\ Found(top.file, k)'
      BY <1>4 DEF PassedFound
    <2> QED
      BY <2>1, <1>3 DEF Settled
  <1>6. ASSUME NEW f \in File \ Unresolved'
        PROVE  AllFound(f)'
    <2>1. CASE f = top.file
      BY <2>1, <1>5
    <2>2. CASE f # top.file
      <3>1. f \in File \ Unresolved
        BY <2>2, <1>3
      <3> QED
        BY <3>1, <1>3, AllFoundStays
    <2> QED
      BY <2>1, <2>2
  <1> QED
    BY <1>1, <1>3, <1>6

LEMMA ReturnFinds ==
    ASSUME IInv, Gathered({"full"}), FoundSoFar, Return
    PROVE  FoundSoFar'
  <1>1. /\ stack # <<>> /\ Leave(Top) /\ imports' = imports /\ Top.todo = {}
        /\ Len(stack) \in Nat \ {0} /\ Sane(Top) /\ Top = stack[Len(stack)]
    BY TopIsSane DEF Return
  <1>2. PICK top \in Frames : /\ top = Top /\ PassedFound(top) /\ top.file \in File
                              /\ top.file \in Unresolved /\ top.todo = {} /\ Leave(top)
    BY <1>1, TopHasFound
  <1>3. CASE Len(stack) = 1
    <2>1. stack' = <<>> /\ UNCHANGED scopes
      BY <1>1, <1>3 DEF Return
    <2>2. NamesGrow
      BY <2>1 DEF NamesGrow, scopes
    <2>3. /\ Unresolved' = Unresolved \ {top.file}
          /\ \A g \in Unresolved' : unresolved'[g] = unresolved[g]
          /\ chain' = chain \ {top.file}
          /\ \A f \in File \ Unresolved' : AllFound(f)'
      BY <1>1, <1>2, <2>2, LeaveFinds
    <2>4. Len(stack') = 0 /\ \A l \in 1 .. Len(stack) : stack[l].file = top.file
      BY <2>1, <1>1, <1>2, <1>3
    <2>5. \A g \in Unresolved' : OffStack(g)
      BY <2>3, <2>4 DEF OffStack
    <2>6. \A g \in Unresolved' : unresolved'[g] = DOMAIN imports'[g] /\ g \notin chain'
      BY <2>3, <2>5, <1>1 DEF FoundSoFar
    <2> QED
      BY <2>3, <2>4, <2>6 DEF FoundSoFar
  <1>4. CASE Len(stack) > 1
    <2>1. PICK left : left = Remaining(top)
      OBVIOUS
    <2>2. left = {} /\ left \in SUBSET File
      BY <2>1, <1>2 DEF Remaining, PassedFound
    <2>3. PICK n, caller :
              /\ n = Len(stack) - 1 /\ n \in Nat /\ n \in 1 .. Len(stack)
              /\ caller = Below[Len(Below)] /\ caller = stack[n]
              /\ Sane(caller) /\ caller \in Frames /\ caller.file \in File
              /\ caller.todo # {} /\ At(caller).dep = top.file
      BY <1>1, <1>2, <1>4, CallerWaits
    <2>4. PICK on : on = Merged(caller, left, top.file)
      OBVIOUS
    <2>5. /\ stack' = Append(Front(Below), on) /\ Extend(caller.file, At(caller))
      BY <2>1, <2>3, <2>4, <1>1, <1>2, <1>4 DEF Return, Merged
    <2>6. PICK k0 : /\ k0 = First(caller.todo) /\ k0 \in DOMAIN imports[caller.file]
                    /\ At(caller) = imports[caller.file][k0]
      BY <2>3, AtSane
    <2>7. /\ on \in Frames /\ on.file = caller.file /\ on.taken = caller.taken
          /\ on.todo = caller.todo \ {k0} /\ on.cycle = caller.cycle
      <3>1. IsMerged(on, caller, left, top.file)
        BY <1>2, <2>2, <2>3, <2>4, MergedFields
      <3>2. k0 = First(caller.todo)
        BY <2>6
      <3> QED
        BY <2>2, <3>1, <3>2 DEF IsMerged
    <2>8. /\ stack' \in Seq(Frames) /\ Len(stack') = n /\ stack'[n] = on
          /\ \A l \in 1 .. n : l # n => stack'[l] = stack[l]
      BY <2>3, <2>5, <2>7, <1>1, <1>4, Returned
    <2>9. caller.file \in Unresolved /\ caller.file # top.file
      <3>1. caller.file \in Unresolved
        BY <2>3 DEF Sane
      <3>2. n \in 1 .. Len(stack) /\ Len(stack) \in 1 .. Len(stack) /\ n # Len(stack)
        BY <2>3, <1>1
      <3>3. stack[n].file # stack[Len(stack)].file
        BY <3>2 DEF IInv, Calls
      <3> QED
        BY <3>1, <3>3, <2>3, <1>1, <1>2
    <2>10. NamesGrow
      BY <2>3, <2>5, <2>9, ExtendNames DEF NamesGrow
    <2>11. /\ Unresolved' = Unresolved \ {top.file}
           /\ \A g \in Unresolved' : unresolved'[g] = unresolved[g]
           /\ chain' = chain \ {top.file}
           /\ \A f \in File \ Unresolved' : AllFound(f)'
      BY <1>1, <1>2, <2>10, LeaveFinds
    <2>12. PICK S \in SUBSET Files : /\ S = (Files \ Unresolved) \cup {top.file}
                                     /\ LeftOnlyFor({"full"}, S, {})
      <3>1. (Files \ Unresolved) \cup {top.file} \in SUBSET Files
        BY <1>2 DEF Files
      <3> QED
        BY <3>1, <1>2, EndWithin
    <2>13. HasAll({"full"}, top.file)
      <3>1. \E m \in Nat, first \in Frames : first = Top /\ Gathers({"full"}, m, first)
        BY <1>1, TopHasGathered
      <3>2. PICK m \in Nat : Gathers({"full"}, m, top)
        BY <3>1, <1>2
      <3>3. {"full"} \in KindSets
        BY DEF KindSets
      <3> QED
        BY <3>2, <3>3, <2>1, <2>2, <1>2, EndGathers
    <2>14. imports[caller.file][k0].dep = top.file /\ Extend(caller.file, imports[caller.file][k0])
      BY <2>3, <2>5, <2>6
    <2>15. Found(caller.file, k0)'
      <3>1. top.file \in S /\ caller.file \notin S
        BY <2>9, <2>12
      <3> QED
        BY <3>1, <2>3, <2>6, <2>12, <2>13, <2>14, <1>1, ExtendFinds
    <2>16. Settled(caller.file, k0)'
      BY <2>11, <2>14, <1>1 DEF Settled
    <2>17. PassedFound(caller)
      BY <2>3 DEF FoundSoFar
    <2>18. PassedFound(on)'
      <3>1. on.cycle \subseteq {caller.file}
        BY <2>7, <2>17 DEF PassedFound
      <3>2. Unresolved' \subseteq Unresolved
        BY <2>11
      <3> QED
        BY <3>1, <3>2, <2>3, <2>7, <2>10, <2>15, <2>16, <2>17, <1>1, NextPassed
    <2>19. ASSUME NEW l \in 1 .. n, NEW frame \in Frames, stack'[l] = frame
           PROVE  PassedFound(frame)'
      <3>1. CASE l = n
        BY <3>1, <2>8, <2>18, <2>19
      <3>2. CASE l # n
        <4>1. stack[l] = frame /\ l \in 1 .. Len(stack)
          BY <3>2, <2>3, <2>8, <2>19
        <4>2. PassedFound(frame)
          BY <4>1 DEF FoundSoFar
        <4> QED
          BY <4>2, <2>10, <2>11, <1>1, PassedStays
      <3> QED
        BY <3>1, <3>2
    <2>20. ASSUME NEW g, g # top.file
           PROVE  OffStack(g)' <=> OffStack(g)
      <3>1. \A l \in 1 .. n : stack'[l].file = stack[l].file
        BY <2>3, <2>7, <2>8
      <3>2. \A l \in 1 .. Len(stack) : l \in 1 .. n \/ l = Len(stack)
        BY <2>3, <1>1
      <3>3. \A l \in 1 .. n : l \in 1 .. Len(stack)
        BY <2>3, <1>1
      <3> QED
        BY <3>1, <3>2, <3>3, <2>8, <2>20, <1>1, <1>2 DEF OffStack
    <2>21. \A g \in Unresolved' : OffStack(g)' => unresolved'[g] = DOMAIN imports'[g]
      BY <2>11, <2>20, <1>1 DEF FoundSoFar
    <2>22. \A g \in Unresolved' \cap chain' : ~OffStack(g)'
      BY <2>11, <2>20 DEF FoundSoFar
    <2> QED
      BY <2>8, <2>11, <2>19, <2>21, <2>22 DEF FoundSoFar
  <1>5. Len(stack) = 1 \/ Len(stack) > 1
    <2>1. \A m \in Nat \ {0} : m = 1 \/ m > 1
      OBVIOUS
    <2> QED
      BY <1>1, <2>1
  <1> QED
    BY <1>3, <1>4, <1>5

LEMMA StutterFinds ==
    ASSUME IInv, FoundSoFar, UNCHANGED vars
    PROVE  FoundSoFar'
  <1>1. /\ imports' = imports /\ Unresolved' = Unresolved /\ unresolved' = unresolved
        /\ stack' = stack /\ chain' = chain /\ names' = names
    BY DEF vars, scopes, Unresolved
  <1>2. NamesGrow
    BY <1>1 DEF NamesGrow
  <1>3. /\ \A f \in File \ Unresolved : AllFound(f)'
        /\ \A frame \in Frames : PassedFound(frame) => PassedFound(frame)'
    BY <1>1, <1>2, AllFoundStays, PassedStays
  <1>4. \A f : OffStack(f)' <=> OffStack(f)
    BY <1>1 DEF OffStack
  <1> QED
    BY <1>1, <1>3, <1>4 DEF FoundSoFar

LEMMA StartsFound == Init => FoundSoFar
  <1> SUFFICES ASSUME Init
               PROVE  FoundSoFar
    OBVIOUS
  <1>1. imports \in [File -> Seq(Imports)] /\ stack = <<>> /\ Len(stack) = 0 /\ chain = {}
    BY GraphsAssumption DEF Init
  <1>2. /\ Unresolved = {g \in File : imports[g] # <<>>}
        /\ \A f \in Unresolved : unresolved[f] = DOMAIN imports[f]
    BY DEF Init, Unresolved
  <1>3. ASSUME NEW f \in File \ Unresolved
        PROVE  AllFound(f)
    <2>1. imports[f] = <<>>
      BY <1>2
    <2> QED
      BY <2>1 DEF AllFound
  <1> QED
    BY <1>1, <1>2, <1>3 DEF FoundSoFar

(* A file of another root is in no ring, so that a graph in which every     *)
(* file of the root is a ring of its own has no two ways into a ring.       *)
LEMMA NoRings ==
    ASSUME IInv, Acyclic
    PROVE  ~TwoWaysIntoARing
  <1>1. \A g \in File : Ring(g, AnyImport) = {g}
    BY DEF Acyclic, AnyImport
  <1>2. ASSUME NEW g \in Foreign
        PROVE  Ring(g, AnyImport) = {}
    <2>1. g \notin File /\ {g} \in SUBSET Files
      BY GraphsAssumption DEF Files
    <2>2. LeftOnlyFor({"full", "named"}, {g}, {})
      BY <2>1 DEF LeftOnlyFor
    <2>3. Reach(g, AnyImport) \subseteq {g}
      BY <2>1, <2>2, ReachWithin DEF AnyImport
    <2> QED
      BY <2>1, <2>3 DEF Ring
  <1>3. ASSUME NEW f \in File, NEW k \in DOMAIN imports[f],
               NEW g \in LeadsTo(imports[f][k], AnyImport)
        PROVE  Ring(g, AnyImport) \in {{}, {g}}
    <2>1. g \in File \cup Foreign
      BY <1>3 DEF LeadsTo, Reach, Files
    <2> QED
      BY <2>1, <1>1, <1>2
  <1> QED
    BY <1>3 DEF TwoWaysIntoARing, AnyImport

LEMMA StepsFind ==
    ASSUME IInv, TwoWaysIntoARing \/ OneWay, Gathered({"full"}), Acyclic => FoundSoFar,
           [Next]_vars
    PROVE  (Acyclic => FoundSoFar)'
  <1>1. imports' = imports
    BY DEF Next, Start, SkipMissing, CopyResolved, Descend, MeetCycle, Return, vars
  <1>2. Acyclic' <=> Acyclic
    BY <1>1, ClosedStays DEF Acyclic, Ring
  <1>3. ASSUME Acyclic
        PROVE  FoundSoFar'
    <2>1. OneWay /\ FoundSoFar
      BY <1>3, NoRings
    <2> QED
      BY <1>3, <2>1, StartFinds, SkipFinds, CopyFinds, DescendFinds, CycleFinds, ReturnFinds,
         StutterFinds DEF Next
  <1> QED
    BY <1>2, <1>3

LEMMA AllNamesFound ==
    ASSUME IInv, Acyclic => FoundSoFar
    PROVE  NamesFound
  <1> SUFFICES ASSUME Finished, Acyclic, NEW f \in File, NEW i \in ToSet(imports[f]),
                      i.kind = "named", i.dep \notin {Missing, f},
                      i.symbol \in Offers(i.dep, Closed({"full"}))
               PROVE  i.symbol \in names[f]
    BY DEF NamesFound
  <1>1. PICK k \in DOMAIN imports[f] : i = imports[f][k]
    BY DEF ToSet
  <1>2. Found(f, k)
    BY <1>1 DEF Finished, FoundSoFar, AllFound
  <1> QED
    BY <1>1, <1>2 DEF Found

(* Over every import graph without cycles of several files, resolution      *)
(* gives each file every symbol that it imports by name and that the        *)
(* imported file, another than its own, offers when all is done: the files  *)
(* are resolved in an order in which what they offer is there in time.      *)
THEOREM NamesAreFound == Spec => []NamesFound
  <1> DEFINE Inv == /\ IInv /\ Sound /\ (TwoWaysIntoARing \/ OneWay) /\ Gathered({"full"})
                    /\ (Acyclic => FoundSoFar)
  <1>1. {"full"} \in KindSets
    BY DEF KindSets
  <1>2. Init => Inv
    BY <1>1, StartsInIInv, StartsSound, StartsOneWay, StartsGathered, StartsFound
  <1>3. Inv /\ [Next]_vars => Inv'
    BY <1>1, StepsKeepIInv, StepsKeepOneWay, StepsGather, StepsFind
  <1>4. Inv => NamesFound
    BY AllNamesFound
  <1> QED
    BY <1>2, <1>3, <1>4, PTL DEF Spec
=============================================================================
