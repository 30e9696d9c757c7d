---------------------------- MODULE LoaderProofs ----------------------------
(***************************************************************************)
(* Proofs about Loader, for every capacity of the channel and whatever is  *)
(* discovered.  FlowInOrder is inductive together with what the loader     *)
(* thread has read so far (Reading); the return value and the refinement   *)
(* of WorkspaceLoad follow from it.                                        *)
(***************************************************************************)
EXTENDS Loader, TLAPS

(* Where the loader thread is, and what it has read of the current root.    *)
Reading ==
    /\ phase \in {"discover", "workspace"} => root = 1 /\ file = 1 /\ read = <<>>
    /\ phase = "bundles" => root <= Len(layout) + 1
    /\ phase = "bundles" /\ root <= Len(layout) =>
          /\ file <= Len(layout[root]) + 1
          /\ Atomic!SomeOf(read, layout[root], file - 1)
    /\ \A i \in 1 .. Len(bundles) : bundles[i].kind = "bundle"

IInv == TypeOK /\ Reading /\ FlowInOrder /\ WholeResult

-----------------------------------------------------------------------------
(* A selection from the first n stays one when n grows, with or without the *)
(* next element appended: a file read, or left out.                         *)
LEMMA SomeOfGrows ==
    ASSUME NEW S, NEW all \in Seq(S), NEW files \in Seq(S), NEW n \in Nat,
           n + 1 <= Len(all), Atomic!SomeOf(files, all, n)
    PROVE  /\ Atomic!SomeOf(files, all, n + 1)
           /\ Atomic!SomeOf(Append(files, all[n + 1]), all, n + 1)
  <1>1. PICK m \in [1 .. Len(files) -> 1 .. n] :
           /\ \A i \in 1 .. Len(files) : files[i] = all[m[i]]
           /\ \A i, j \in 1 .. Len(files) : i < j => m[i] < m[j]
    BY DEF Atomic!SomeOf
  <1>2. m \in [1 .. Len(files) -> 1 .. n + 1]
    OBVIOUS
  <1>3. Atomic!SomeOf(files, all, n + 1)
    BY <1>1, <1>2 DEF Atomic!SomeOf
  <1> DEFINE more == Append(files, all[n + 1])
             k == [i \in 1 .. Len(more) |-> IF i <= Len(files) THEN m[i] ELSE n + 1]
  <1>4. Len(more) = Len(files) + 1 /\ more[Len(files) + 1] = all[n + 1]
        /\ \A i \in 1 .. Len(files) : more[i] = files[i]
    OBVIOUS
  <1> HIDE DEF more
  <1>5. k \in [1 .. Len(more) -> 1 .. n + 1]
    BY <1>4
  <1>6. \A i \in 1 .. Len(more) : more[i] = all[k[i]]
    BY <1>1, <1>4
  <1>7. \A i, j \in 1 .. Len(more) : i < j => k[i] < k[j]
    BY <1>1, <1>4
  <1>8. Atomic!SomeOf(more, all, n + 1)
    BY <1>5, <1>6, <1>7 DEF Atomic!SomeOf
  <1> QED
    BY <1>3, <1>8 DEF more

(* Nothing is a selection of none. *)
LEMMA NoneOf == ASSUME NEW all PROVE Atomic!SomeOf(<<>>, all, 0)
  <1> DEFINE m == [i \in 1 .. Len(<<>>) |-> 1]
  <1>1. Len(<<>>) = 0
    OBVIOUS
  <1>2. m \in [1 .. Len(<<>>) -> 1 .. 0]
    BY <1>1
  <1>3. \A i \in 1 .. Len(<<>>) : FALSE
    BY <1>1
  <1>4. \E k \in [1 .. Len(<<>>) -> 1 .. 0] :
           /\ \A i \in 1 .. Len(<<>>) : <<>>[i] = all[k[i]]
           /\ \A i, j \in 1 .. Len(<<>>) : i < j => k[i] < k[j]
    <2>1. WITNESS m \in [1 .. Len(<<>>) -> 1 .. 0]
    <2> QED
      BY <1>3
  <1> QED
    BY <1>4 DEF Atomic!SomeOf

(* Two sequences one after the other. *)
LEMMA Concatenated ==
    ASSUME NEW S, NEW s \in Seq(S), NEW t \in Seq(S)
    PROVE  /\ s \o t \in Seq(S) /\ Len(s \o t) = Len(s) + Len(t)
           /\ \A i \in 1 .. Len(s) : (s \o t)[i] = s[i]
           /\ \A i \in 1 .. Len(t) : (s \o t)[Len(s) + i] = t[i]
  OBVIOUS

(* The messages as they flow past: what has been received... *)
LEMMA ReceivedProperties ==
    ASSUME TypeOK
    PROVE  /\ Received \in Seq(Messages)
           /\ Len(Received) = (IF workspace THEN 1 ELSE 0) + Len(bundles)
           /\ workspace => Received[1] = WorkspaceMsg
           /\ \A i \in 1 .. Len(bundles) :
                 Received[(IF workspace THEN 1 ELSE 0) + i] = bundles[i]
  <1>1. WorkspaceMsg \in Messages /\ bundles \in Seq(Messages) /\ workspace \in BOOLEAN
    BY DEF TypeOK, Messages
  <1>2. CASE workspace
    <2> DEFINE one == <<WorkspaceMsg>>
    <2>1. one \in Seq(Messages) /\ Len(one) = 1 /\ one[1] = WorkspaceMsg
      BY <1>1
    <2>2. Received = one \o bundles
      BY <1>2 DEF Received
    <2> HIDE DEF one
    <2>3. /\ one \o bundles \in Seq(Messages) /\ Len(one \o bundles) = Len(one) + Len(bundles)
          /\ \A i \in 1 .. Len(one) : (one \o bundles)[i] = one[i]
          /\ \A i \in 1 .. Len(bundles) : (one \o bundles)[Len(one) + i] = bundles[i]
      <3>1. one \in Seq(Messages) /\ bundles \in Seq(Messages)
        BY <1>1, <2>1
      <3> QED
        BY <3>1, Concatenated
    <2>4. /\ Received \in Seq(Messages) /\ Len(Received) = Len(one) + Len(bundles)
          /\ \A i \in 1 .. Len(one) : Received[i] = one[i]
          /\ \A i \in 1 .. Len(bundles) : Received[Len(one) + i] = bundles[i]
      BY <2>2, <2>3, Zenon
    <2> QED
      BY <1>2, <2>1, <2>4
  <1>3. CASE ~workspace
    <2> DEFINE zero == <<>>
    <2>1. zero \in Seq(Messages) /\ Len(zero) = 0
      OBVIOUS
    <2>2. Received = zero \o bundles
      BY <1>3 DEF Received
    <2> HIDE DEF zero
    <2> QED
      BY <1>1, <1>3, <2>1, <2>2, Concatenated
  <1> QED
    BY <1>1, <1>2, <1>3

(* ... and then what is in the channel. *)
LEMMA FlowProperties ==
    ASSUME TypeOK
    PROVE  /\ Flow \in Seq(Messages)
           /\ Len(Flow) = Len(Received) + Len(channel)
           /\ \A i \in 1 .. Len(Received) : Flow[i] = Received[i]
           /\ \A i \in 1 .. Len(channel) : Flow[Len(Received) + i] = channel[i]
  BY ReceivedProperties, Concatenated DEF Flow, TypeOK

-----------------------------------------------------------------------------
LEMMA InitIInv == Init => IInv
  <1> SUFFICES ASSUME Init PROVE IInv
    OBVIOUS
  <1>1. TypeOK
    <2>1. channel \in Seq(Messages) /\ Len(channel) <= Capacity /\ bundles \in Seq(Messages)
          /\ read \in Seq(Path) /\ root \in Nat \ {0} /\ file \in Nat \ {0}
      BY CapacityAssumption DEF Init
    <2> QED
      BY <2>1, Zenon DEF Init, TypeOK
  <1>2. Len(Flow) = 0
    BY <1>1, ReceivedProperties, FlowProperties DEF Init
  <1>3. FlowInOrder
    BY <1>2 DEF FlowInOrder, Init, Sent
  <1> QED
    BY <1>1, <1>3 DEF IInv, Reading, WholeResult, Init

(* A step that leaves the flow as it is, and does not pass a message on.    *)
LEMMA FlowUnchanged ==
    ASSUME FlowInOrder, UNCHANGED <<Flow, layout, status>>, Sent' = Sent
    PROVE  FlowInOrder'
  BY DEF FlowInOrder, IsMessage

(* A message sent: the flow grows by it at its end. *)
LEMMA FlowGrows ==
    ASSUME IInv, NEW msg \in Messages, channel' = Append(channel, msg),
           UNCHANGED <<layout, workspace, bundles, status>>, status = "loading",
           Sent' = Sent + 1, IsMessage(msg, Sent + 1), Sent \in Nat
    PROVE  FlowInOrder'
  <1>1. Received' = Received
    BY DEF Received
  <1>2. Received \in Seq(Messages) /\ channel \in Seq(Messages) /\ Flow \in Seq(Messages)
    BY ReceivedProperties, FlowProperties DEF IInv, TypeOK
  <1>3. Flow' = Append(Flow, msg)
    <2>1. Flow' = Received \o Append(channel, msg) /\ Flow = Received \o channel
      BY <1>1 DEF Flow
    <2> QED
      BY <1>2, <2>1
  <1>4. Len(Flow) = Sent /\ \A i \in 1 .. Len(Flow) : IsMessage(Flow[i], i)
    BY DEF IInv, FlowInOrder
  <1>5. Len(Flow') = Sent + 1 /\ Flow'[Sent + 1] = msg
        /\ \A i \in 1 .. Sent : Flow'[i] = Flow[i]
    BY <1>2, <1>3, <1>4
  <1>6. \A i \in 1 .. Len(Flow') : IsMessage(Flow'[i], i)
    BY <1>4, <1>5
  <1>7. \A i : IsMessage(Flow'[i], i) <=> IsMessage(Flow[i], i)'
    BY DEF IsMessage
  <1> QED
    BY <1>5, <1>6, <1>7 DEF FlowInOrder, IsMessage

(* While the loader thread runs, the receiver is there and the layout is    *)
(* what was discovered.                                                     *)
LEMMA Running ==
    ASSUME IInv, phase # "ended"
    PROVE  /\ status = "loading" /\ rx
           /\ phase # "discover" => layout \in Layouts /\ layout \in Seq(Seq(Path))
           /\ Sent \in Nat
  <1>1. status = "loading" /\ rx
    BY DEF IInv, WholeResult, TypeOK
  <1>2. phase # "discover" => layout \in Layouts /\ layout \in Seq(Seq(Path))
    BY LayoutsAssumption DEF IInv, TypeOK
  <1>3. Sent \in Nat
    BY DEF Sent, IInv, TypeOK
  <1> QED
    BY <1>1, <1>2, <1>3

LEMMA DiscoverStep == ASSUME IInv, Discover PROVE IInv'
  <1> USE DEF Discover, main
  <1>1. status = "loading" /\ status' = "loading" /\ phase = "discover"
    BY Running
  <1>2. TypeOK'
    <2>1. layout' # None
      BY LayoutsAssumption
    <2> QED
      BY <2>1, Zenon DEF IInv, TypeOK
  <1>3. Reading'
    BY <1>1 DEF IInv, Reading
  <1>4. FlowInOrder'
    <2>1. Len(Flow) = 0 /\ Flow' = Flow
      BY <1>1 DEF IInv, FlowInOrder, Sent, Flow, Received
    <2> QED
      BY <1>1, <2>1 DEF FlowInOrder, Sent
  <1> QED
    BY <1>1, <1>2, <1>3, <1>4 DEF IInv, WholeResult

LEMMA SendWorkspaceStep == ASSUME IInv, SendWorkspace PROVE IInv'
  <1> USE DEF SendWorkspace, main
  <1>1. /\ status = "loading" /\ status' = "loading" /\ rx /\ phase = "workspace"
        /\ layout \in Layouts /\ layout \in Seq(Seq(Path))
    BY Running
  <1>2. /\ channel' = Append(channel, WorkspaceMsg) /\ phase' = "bundles" /\ UNCHANGED tx
        /\ Len(channel) < Capacity
    BY <1>1 DEF Send, GoOn, Fits
  <1>3. TypeOK'
    <2>1. channel' \in Seq(Messages) /\ Len(channel') <= Capacity
      <3>1. channel \in Seq(Messages) /\ WorkspaceMsg \in Messages
        BY DEF IInv, TypeOK, Messages
      <3> QED
        BY <1>2, <3>1, CapacityAssumption
    <2>2. layout # None
      BY <1>1, LayoutsAssumption
    <2> QED
      BY <1>1, <1>2, <2>1, <2>2, Zenon DEF IInv, TypeOK
  <1>4. Reading'
    <2>1. root = 1 /\ file = 1 /\ read = <<>>
      BY <1>1 DEF IInv, Reading
    <2>2. Atomic!SomeOf(read, layout[root], file - 1)
      <3>1. file - 1 = 0
        BY <2>1
      <3> QED
        BY <2>1, <3>1, NoneOf
    <2>3. root <= Len(layout) + 1 /\ (root <= Len(layout) => file <= Len(layout[root]) + 1)
      BY <1>1, <2>1
    <2>4. (Atomic!SomeOf(read, layout[root], file - 1))'
      BY <2>2 DEF Atomic!SomeOf
    <2> QED
      BY <1>2, <2>3, <2>4 DEF IInv, Reading
  <1>5. FlowInOrder'
    <2>1. Sent = 0 /\ Sent' = 1
      BY <1>1, <1>2 DEF Sent, IInv, Reading
    <2>2. IsMessage(WorkspaceMsg, 1)
      BY <1>1 DEF IsMessage
    <2>3. WorkspaceMsg \in Messages
      BY DEF Messages
    <2> QED
      BY <1>1, <1>2, <2>1, <2>2, <2>3, FlowGrows
  <1> QED
    BY <1>1, <1>3, <1>4, <1>5 DEF IInv, WholeResult

LEMMA ReadFileStep == ASSUME IInv, ReadFile PROVE IInv'
  <1> USE DEF ReadFile, AtFile, main
  <1>1. /\ status = "loading" /\ status' = "loading" /\ phase = "bundles"
        /\ layout \in Layouts /\ layout \in Seq(Seq(Path))
    BY Running
  <1>2. /\ layout[root] \in Seq(Path) /\ file \in Nat \ {0} /\ read \in Seq(Path)
        /\ file <= Len(layout[root]) /\ layout[root][file] \in Path
    BY <1>1 DEF IInv, TypeOK
  <1>3. TypeOK'
    <2>1. read' \in Seq(Path) /\ file' \in Nat \ {0}
      BY <1>2
    <2> QED
      BY <2>1, Zenon DEF IInv, TypeOK
  <1>4. Reading'
    <2> DEFINE n == file - 1
    <2>1. n \in Nat /\ n + 1 = file /\ file' - 1 = file
      BY <1>2
    <2>2. Atomic!SomeOf(read, layout[root], n)
      BY <1>1 DEF IInv, Reading
    <2>3. /\ Atomic!SomeOf(read, layout[root], n + 1)
          /\ Atomic!SomeOf(Append(read, layout[root][n + 1]), layout[root], n + 1)
      <3> HIDE DEF n
      <3> QED
        BY <1>2, <2>1, <2>2, SomeOfGrows
    <2>4. Atomic!SomeOf(read', layout'[root'], file' - 1)
      BY <2>1, <2>3
    <2>5. (Atomic!SomeOf(read, layout[root], file - 1))'
      BY <2>4 DEF Atomic!SomeOf
    <2>6. file' <= Len(layout'[root']) + 1
      BY <1>2
    <2> QED
      BY <1>1, <2>5, <2>6 DEF IInv, Reading
  <1>5. FlowInOrder'
    <2>1. Flow' = Flow /\ Sent' = Sent
      BY <1>1 DEF Flow, Received, Sent
    <2> QED
      BY <1>1, <2>1, FlowUnchanged DEF IInv
  <1> QED
    BY <1>1, <1>3, <1>4, <1>5 DEF IInv, WholeResult

LEMMA SendBundleStep == ASSUME IInv, SendBundle PROVE IInv'
  <1> USE DEF SendBundle, main
  <1> DEFINE msg == Bundle(root, read)
  <1>1. /\ status = "loading" /\ status' = "loading" /\ rx /\ phase = "bundles"
        /\ layout \in Layouts /\ layout \in Seq(Seq(Path))
    BY Running
  <1>2. /\ channel' = Append(channel, msg) /\ phase' = "bundles" /\ UNCHANGED tx
        /\ Len(channel) < Capacity
    BY <1>1 DEF Send, GoOn, Fits
  <1>3. root \in Nat \ {0} /\ read \in Seq(Path) /\ msg \in Messages
    BY DEF IInv, TypeOK, Messages, Bundle
  <1>4. TypeOK'
    <2>1. channel' \in Seq(Messages) /\ Len(channel') <= Capacity
      <3>1. channel \in Seq(Messages)
        BY DEF IInv, TypeOK
      <3> HIDE DEF msg
      <3> QED
        BY <1>2, <1>3, <3>1, CapacityAssumption
    <2>2. root' \in Nat \ {0} /\ file' \in Nat \ {0} /\ read' \in Seq(Path)
      BY <1>3
    <2> QED
      BY <1>1, <1>2, <2>1, <2>2, Zenon DEF IInv, TypeOK
  <1>5. Reading'
    <2>1. (Atomic!SomeOf(read, layout[root], file - 1))'
      <3>1. Atomic!SomeOf(read', layout'[root'], file' - 1)
        <4>1. file' - 1 = 0
          OBVIOUS
        <4> QED
          BY <4>1, NoneOf
      <3> QED
        BY <3>1 DEF Atomic!SomeOf
    <2>2. /\ root' <= Len(layout') + 1
          /\ root' <= Len(layout') => file' <= Len(layout'[root']) + 1
      BY <1>1, <1>3
    <2> QED
      BY <1>2, <2>1, <2>2 DEF IInv, Reading
  <1>6. FlowInOrder'
    <2>1. Sent = root /\ Sent' = Sent + 1
      BY <1>1, <1>2 DEF Sent
    <2>2. Atomic!SomeOf(read, layout[root], Len(layout[root]))
      <3>1. file \in Nat /\ layout[root] \in Seq(Path) /\ Len(layout[root]) \in Nat
        BY <1>1, <1>3 DEF IInv, TypeOK
      <3>2. file - 1 = Len(layout[root])
        BY <1>1, <3>1 DEF IInv, Reading
      <3> QED
        BY <1>1, <3>2 DEF IInv, Reading
    <2>3. Atomic!LoadOf(msg, root, layout)
      BY <2>2 DEF Atomic!LoadOf, Bundle
    <2>4. IsMessage(msg, Sent + 1)
      <3>1. Sent + 1 # 1 /\ (Sent + 1) - 1 = root /\ Sent + 1 # Len(layout) + 2
        BY <1>1, <1>3, <2>1
      <3> HIDE DEF msg
      <3> QED
        BY <2>3, <3>1 DEF IsMessage
    <2> HIDE DEF msg
    <2> QED
      BY <1>1, <1>2, <1>3, <2>1, <2>4, FlowGrows, Running
  <1> QED
    BY <1>1, <1>4, <1>5, <1>6 DEF IInv, WholeResult

LEMMA SendFinishedStep == ASSUME IInv, SendFinished PROVE IInv'
  <1> USE DEF SendFinished, main
  <1>1. /\ status = "loading" /\ status' = "loading" /\ rx /\ phase = "bundles"
        /\ layout \in Layouts /\ layout \in Seq(Seq(Path))
    BY Running
  <1>2. /\ channel' = Append(channel, FinishedMsg) /\ Len(channel) < Capacity
    BY <1>1 DEF Send, Fits
  <1>3. TypeOK'
    <2>1. channel' \in Seq(Messages) /\ Len(channel') <= Capacity
      <3>1. channel \in Seq(Messages) /\ FinishedMsg \in Messages
        BY DEF IInv, TypeOK, Messages
      <3> QED
        BY <1>2, <3>1, CapacityAssumption
    <2>2. layout # None
      BY <1>1, LayoutsAssumption
    <2> QED
      BY <1>1, <2>1, <2>2, Zenon DEF IInv, TypeOK
  <1>4. Reading'
    BY DEF IInv, Reading
  <1>5. FlowInOrder'
    <2>1. root = Len(layout) + 1 /\ Len(layout) \in Nat
      <3>1. root \in Nat /\ Len(layout) \in Nat
        BY <1>1 DEF IInv, TypeOK
      <3> QED
        BY <1>1, <3>1 DEF IInv, Reading
    <2>2. Sent = Len(layout) + 1 /\ Sent' = Sent + 1
      BY <1>1, <2>1 DEF Sent
    <2>3. IsMessage(FinishedMsg, Sent + 1)
      BY <2>1, <2>2 DEF IsMessage
    <2>4. FinishedMsg \in Messages
      BY DEF Messages
    <2> QED
      BY <1>1, <1>2, <2>2, <2>3, <2>4, FlowGrows, Running
  <1> QED
    BY <1>1, <1>3, <1>4, <1>5 DEF IInv, WholeResult

(* A message received: it was the next one, and stays the next one. *)
LEMMA PassedOn ==
    ASSUME NEW S, NEW s \in Seq(S), NEW t \in Seq(S), t # <<>>
    PROVE  (s \o <<Head(t)>>) \o Tail(t) = s \o t
  OBVIOUS

LEMMA AppendedLast ==
    ASSUME NEW S, NEW s \in Seq(S), NEW t \in Seq(S), NEW e \in S
    PROVE  s \o Append(t, e) = (s \o t) \o <<e>>
  OBVIOUS

(* The head of the channel is message number Len(Received) + 1 of run's;    *)
(* there are no more than Len(layout) + 2.                                  *)
LEMMA HeadOfChannel ==
    ASSUME IInv, status = "loading", channel # <<>>
    PROVE  /\ IsMessage(Head(channel), Len(Received) + 1)
           /\ phase \in {"bundles", "ended"}
           /\ layout \in Seq(Seq(Path)) /\ Len(layout) \in Nat
           /\ Len(Received) \in Nat /\ Sent \in Nat /\ Len(Received) + 1 <= Sent
           /\ Sent <= Len(layout) + 2 /\ (phase = "bundles" => Sent <= Len(layout) + 1)
  <1>1. /\ channel \in Seq(Messages) /\ Received \in Seq(Messages)
        /\ Len(Flow) = Len(Received) + Len(channel)
        /\ \A i \in 1 .. Len(channel) : Flow[Len(Received) + i] = channel[i]
    BY ReceivedProperties, FlowProperties DEF IInv, TypeOK
  <1>2. /\ Len(channel) \in Nat /\ Len(channel) >= 1 /\ Head(channel) = channel[1]
        /\ Len(Received) \in Nat
    BY <1>1
  <1>3. Flow[Len(Received) + 1] = Head(channel) /\ Len(Received) + 1 \in 1 .. Len(Flow)
    BY <1>1, <1>2
  <1>4. Len(Flow) = Sent /\ IsMessage(Head(channel), Len(Received) + 1)
    BY <1>3 DEF IInv, FlowInOrder
  <1>5. Sent \in Nat /\ Len(Received) + 1 <= Sent
    BY <1>1, <1>2, <1>4
  <1>6. phase \in {"bundles", "ended"}
    BY <1>2, <1>5 DEF IInv, TypeOK, Sent
  <1>7. layout \in Seq(Seq(Path)) /\ Len(layout) \in Nat
    <2>1. layout \in Seq(Seq(Path))
      BY <1>6, LayoutsAssumption DEF IInv, TypeOK
    <2> QED
      BY <2>1
  <1>8. Sent <= Len(layout) + 2 /\ (phase = "bundles" => Sent <= Len(layout) + 1)
    <2>1. root \in Nat
      BY DEF IInv, TypeOK
    <2> QED
      BY <1>6, <1>7, <2>1 DEF IInv, Reading, Sent
  <1> QED
    BY <1>2, <1>4, <1>5, <1>6, <1>7, <1>8

LEMMA ReceiveStep == ASSUME IInv, Receive PROVE IInv'
  <1> USE DEF loader
  <1>1. status = "loading" /\ UNCHANGED <<layout, phase, root, file, read, tx>>
    BY DEF Receive
  <1>2. /\ channel \in Seq(Messages) /\ bundles \in Seq(Messages)
        /\ Received \in Seq(Messages) /\ Sent' = Sent
    BY <1>1, ReceivedProperties DEF IInv, TypeOK, Sent
  <1>3. ASSUME channel # <<>>, channel' = Tail(channel), UNCHANGED <<status, rx>>,
               bundles' \in Seq(Messages), workspace' \in BOOLEAN,
               \A i \in 1 .. Len(bundles') : bundles'[i].kind = "bundle",
               Received' = Received \o <<Head(channel)>>
        PROVE  IInv'
    <2>1. channel' \in Seq(Messages) /\ Len(channel') <= Capacity
      <3>1. Len(channel) <= Capacity /\ Capacity \in Nat
        BY CapacityAssumption DEF IInv, TypeOK
      <3> QED
        BY <1>2, <1>3, <3>1
    <2>2. TypeOK'
      BY <1>1, <1>3, <2>1, Zenon DEF IInv, TypeOK
    <2>3. Reading'
      <3>1. (Atomic!SomeOf(read, layout[root], file - 1))'
               <=> Atomic!SomeOf(read, layout[root], file - 1)
        BY <1>1 DEF Atomic!SomeOf
      <3> QED
        BY <1>1, <1>3, <3>1 DEF IInv, Reading
    <2>4. Flow' = Flow
      BY <1>2, <1>3, PassedOn DEF Flow
    <2> QED
      BY <1>1, <1>2, <1>3, <2>2, <2>3, <2>4, FlowUnchanged DEF IInv, WholeResult
  <1>4. CASE /\ channel # <<>> /\ Head(channel).kind = "workspace"
             /\ workspace' = TRUE /\ channel' = Tail(channel)
             /\ UNCHANGED <<bundles, status, rx>>
    <2> DEFINE i == Len(Received) + 1
    <2>1. i = 1
      <3>1. /\ IsMessage(Head(channel), i) /\ Len(layout) \in Nat
            /\ i \in Nat \ {0} /\ i <= Len(layout) + 2
        <4>1. IsMessage(Head(channel), i) /\ Len(layout) \in Nat /\ Len(Received) \in Nat
              /\ Sent \in Nat /\ i <= Sent /\ Sent <= Len(layout) + 2
          BY <1>1, <1>4, HeadOfChannel
        <4> QED
          BY <4>1
      <3>2. ~(i \in 2 .. (Len(layout) + 1))
        BY <1>4, <3>1 DEF IsMessage, Atomic!LoadOf
      <3>3. i # Len(layout) + 2
        BY <1>4, <3>1 DEF IsMessage, FinishedMsg
      <3> HIDE DEF i
      <3> QED
        BY <3>1, <3>2, <3>3
    <2>2. Head(channel) = WorkspaceMsg
      BY <1>1, <1>4, <2>1, HeadOfChannel DEF IsMessage
    <2>3. Len(Received) = 0 /\ Len(bundles) = 0
      BY <1>2, <2>1, ReceivedProperties DEF IInv
    <2>4. Received = <<>> /\ bundles = <<>>
      BY <1>2, <2>3
    <2>5. Received' = Received \o <<Head(channel)>>
      <3>1. Received' = <<WorkspaceMsg>> \o <<>>
        BY <1>4, <2>4 DEF Received
      <3>2. <<WorkspaceMsg>> \o <<>> = <<>> \o <<WorkspaceMsg>>
        OBVIOUS
      <3> QED
        BY <2>2, <2>4, <3>1, <3>2, Zenon
    <2>6. workspace' \in BOOLEAN
      BY <1>4, Zenon
    <2>7. bundles' \in Seq(Messages)
          /\ \A j \in 1 .. Len(bundles') : bundles'[j].kind = "bundle"
      BY <1>2, <1>4 DEF IInv, Reading
    <2> QED
      BY <1>3, <1>4, <2>5, <2>6, <2>7, Zenon
  <1>5. CASE /\ channel # <<>> /\ Head(channel).kind = "bundle"
             /\ bundles' = Append(bundles, Head(channel))
             /\ channel' = Tail(channel) /\ UNCHANGED <<workspace, status, rx>>
    <2>1. Head(channel) \in Messages
      BY <1>2, <1>5
    <2>2. /\ bundles' \in Seq(Messages)
          /\ \A j \in 1 .. Len(bundles') : bundles'[j].kind = "bundle"
      BY <1>2, <1>5, <2>1 DEF IInv, Reading
    <2>3. Received' = Received \o <<Head(channel)>>
      <3> DEFINE first == IF workspace THEN <<WorkspaceMsg>> ELSE <<>>
      <3>1. first \in Seq(Messages)
        <4>1. <<WorkspaceMsg>> \in Seq(Messages)
          BY DEF Messages
        <4>2. <<>> \in Seq(Messages)
          OBVIOUS
        <4> QED
          BY <4>1, <4>2, Zenon
      <3>2. Received = first \o bundles /\ Received' = first \o Append(bundles, Head(channel))
        BY <1>5, Zenon DEF Received
      <3> HIDE DEF first
      <3> QED
        BY <1>2, <2>1, <3>1, <3>2, AppendedLast
    <2>4. workspace' \in BOOLEAN
      BY <1>5, Zenon DEF IInv, TypeOK
    <2> QED
      BY <1>3, <1>5, <2>2, <2>3, <2>4, Zenon
  <1>6. CASE /\ \/ channel # <<>> /\ Head(channel).kind = "finished"
                \/ channel = <<>> /\ ~tx
             /\ Return
    <2> DEFINE n == Len(Received)
               one == IF workspace THEN 1 ELSE 0
    <2>1. /\ n = one + Len(bundles) /\ Len(bundles) \in Nat /\ n \in Nat /\ one \in {0, 1}
          /\ \A i \in 1 .. Len(bundles) : Received[one + i] = bundles[i]
          /\ \A i \in 1 .. n : Flow[i] = Received[i]
          /\ Len(Flow) = n + Len(channel)
      BY <1>2, ReceivedProperties, FlowProperties DEF IInv
    <2>2. Len(Flow) = Sent /\ \A i \in 1 .. Len(Flow) : IsMessage(Flow[i], i)
      BY <1>1 DEF IInv, FlowInOrder
    <2>3. \A i \in 1 .. Len(bundles) : IsMessage(bundles[i], one + i) /\ bundles[i].kind = "bundle"
      <3> SUFFICES ASSUME NEW i \in 1 .. Len(bundles)
                   PROVE  IsMessage(bundles[i], one + i) /\ bundles[i].kind = "bundle"
        OBVIOUS
      <3>1. one + i \in 1 .. n /\ Len(channel) \in Nat
        BY <1>2, <2>1
      <3>2. Flow[one + i] = bundles[i]
        BY <2>1, <3>1
      <3>3. one + i \in 1 .. Len(Flow)
        BY <2>1, <3>1
      <3> HIDE DEF one, n
      <3> QED
        BY <2>2, <3>2, <3>3 DEF IInv, Reading
    <2>4. /\ layout \in Seq(Seq(Path)) /\ Len(layout) \in Nat /\ phase = "ended"
          /\ n = Len(layout) + 1
      <3>1. CASE channel # <<>> /\ Head(channel).kind = "finished"
        <4>1. /\ IsMessage(Head(channel), n + 1) /\ n + 1 <= Sent /\ Sent <= Len(layout) + 2
              /\ phase \in {"bundles", "ended"} /\ (phase = "bundles" => Sent <= Len(layout) + 1)
              /\ layout \in Seq(Seq(Path)) /\ Len(layout) \in Nat
          BY <1>1, <3>1, HeadOfChannel
        <4>2. n + 1 # 1
          BY <3>1, <4>1 DEF IsMessage, WorkspaceMsg
        <4>3. ~(n + 1 \in 2 .. (Len(layout) + 1))
          BY <3>1, <4>1 DEF IsMessage, Atomic!LoadOf
        <4>4. n + 1 = Len(layout) + 2 /\ Sent = Len(layout) + 2
          <5>1. Sent \in Nat
            BY <1>2, <2>1, <2>2
          <5> HIDE DEF n
          <5> QED
            BY <2>1, <4>1, <4>2, <4>3, <5>1
        <4> HIDE DEF n
        <4> QED
          BY <2>1, <4>1, <4>4
      <3>2. CASE channel = <<>> /\ ~tx
        <4>1. phase = "ended"
          BY <3>2 DEF IInv, TypeOK
        <4>2. layout \in Seq(Seq(Path))
          BY <4>1, LayoutsAssumption DEF IInv, TypeOK
        <4>3. Len(layout) \in Nat /\ Sent = Len(layout) + 2 /\ n = Len(layout) + 2
          <5>1. Len(channel) = 0
            BY <3>2
          <5>2. Len(layout) \in Nat
            BY <4>2
          <5> QED
            BY <2>1, <2>2, <4>1, <5>1, <5>2 DEF Sent
        <4>4. Len(bundles) \in 1 .. Len(bundles) /\ one + Len(bundles) = Len(layout) + 2
          <5> HIDE DEF one, n
          <5> QED
            BY <2>1, <4>3
        <4>5. IsMessage(bundles[Len(bundles)], Len(layout) + 2)
              /\ bundles[Len(bundles)].kind = "bundle"
          <5> HIDE DEF one
          <5> QED
            BY <2>3, <4>4
        <4>6. bundles[Len(bundles)] = FinishedMsg
          BY <4>5 DEF IsMessage
        <4> QED
          BY <4>5, <4>6 DEF FinishedMsg
      <3> QED
        BY <1>6, <3>1, <3>2
    <2>5. workspace
      <3>1. SUFFICES ASSUME ~workspace PROVE FALSE
        OBVIOUS
      <3>2. 1 \in 1 .. Len(bundles)
        BY <2>1, <2>4, <3>1
      <3>3. one + 1 = 1
        BY <3>1
      <3>4. IsMessage(bundles[1], 1) /\ bundles[1].kind = "bundle"
        <4> HIDE DEF one
        <4> QED
          BY <2>3, <3>2, <3>3
      <3>5. bundles[1] = WorkspaceMsg
        BY <3>4 DEF IsMessage
      <3> QED
        BY <3>4, <3>5 DEF WorkspaceMsg
    <2>6. one = 1 /\ Len(bundles) = Len(layout)
      BY <2>1, <2>4, <2>5
    <2>7. \A r \in 1 .. Len(layout) : Atomic!LoadOf(bundles[r], r, layout)
      <3> SUFFICES ASSUME NEW r \in 1 .. Len(layout) PROVE Atomic!LoadOf(bundles[r], r, layout)
        OBVIOUS
      <3>1. IsMessage(bundles[r], 1 + r)
        <4> HIDE DEF one
        <4> QED
          BY <2>3, <2>6
      <3>2. 1 + r \in 2 .. (Len(layout) + 1) /\ (1 + r) - 1 = r
        BY <2>4
      <3> QED
        BY <3>1, <3>2 DEF IsMessage
    <2>8. Atomic!LoadsOf(bundles, layout)
      BY <2>6, <2>7 DEF Atomic!LoadsOf
    <2>9. /\ status' = "returned" /\ rx' = FALSE /\ channel' = <<>>
          /\ UNCHANGED <<workspace, bundles>>
      BY <1>6, <2>5 DEF Return
    <2>10. TypeOK'
      <3>1. channel' \in Seq(Messages) /\ Len(channel') <= Capacity
        BY <2>9, CapacityAssumption
      <3> QED
        BY <1>1, <2>9, <3>1, Zenon DEF IInv, TypeOK
    <2>11. Reading'
      <3>1. (Atomic!SomeOf(read, layout[root], file - 1))'
               <=> Atomic!SomeOf(read, layout[root], file - 1)
        BY <1>1 DEF Atomic!SomeOf
      <3> QED
        BY <1>1, <2>9, <3>1 DEF IInv, Reading
    <2>12. FlowInOrder'
      BY <2>9 DEF FlowInOrder
    <2>13. WholeResult'
      <3>1. (Atomic!LoadsOf(bundles, layout))'
        BY <1>1, <2>8, <2>9 DEF Atomic!LoadsOf, Atomic!LoadOf, Atomic!SomeOf
      <3> QED
        BY <1>1, <2>4, <2>9, <3>1 DEF WholeResult
    <2> QED
      BY <2>10, <2>11, <2>12, <2>13 DEF IInv
  <1> QED
    BY <1>4, <1>5, <1>6 DEF Receive

LEMMA Step == ASSUME IInv, [Next]_vars PROVE IInv'
  <1>1. CASE Discover
    BY <1>1, DiscoverStep
  <1>2. CASE SendWorkspace
    BY <1>2, SendWorkspaceStep
  <1>3. CASE ReadFile
    BY <1>3, ReadFileStep
  <1>4. CASE SendBundle
    BY <1>4, SendBundleStep
  <1>5. CASE SendFinished
    BY <1>5, SendFinishedStep
  <1>6. CASE Receive
    BY <1>6, ReceiveStep
  <1>7. CASE UNCHANGED vars
    <2> USE <1>7 DEF vars, loader, main
    <2>1. TypeOK'
      BY Zenon DEF IInv, TypeOK
    <2>2. Reading'
      <3>1. (Atomic!SomeOf(read, layout[root], file - 1))'
               <=> Atomic!SomeOf(read, layout[root], file - 1)
        BY DEF Atomic!SomeOf
      <3> QED
        BY <3>1 DEF IInv, Reading
    <2>3. FlowInOrder'
      <3>1. Flow' = Flow /\ Sent' = Sent
        BY DEF Flow, Received, Sent
      <3> QED
        BY <3>1, FlowUnchanged DEF IInv
    <2>4. WholeResult'
      <3>1. (Atomic!LoadsOf(bundles, layout))' <=> Atomic!LoadsOf(bundles, layout)
        BY DEF Atomic!LoadsOf, Atomic!LoadOf, Atomic!SomeOf
      <3> QED
        BY <3>1 DEF IInv, WholeResult
    <2> QED
      BY <2>1, <2>2, <2>3, <2>4 DEF IInv
  <1> QED
    BY <1>1, <1>2, <1>3, <1>4, <1>5, <1>6, <1>7 DEF Next, LoaderThread

(* Loading, whatever the interleaving of the two threads, keeps the         *)
(* inductive invariant.                                                     *)
THEOREM Invariance == Spec => []IInv
  BY InitIInv, Step, PTL DEF Spec

(* Types, and no more messages in the channel than it holds. *)
THEOREM TypeCorrect == Spec => []TypeOK
  <1>1. IInv => TypeOK
    BY DEF IInv
  <1> QED
    BY <1>1, Invariance, PTL

(* Messages are received in the order of run, none lost and none twice, for *)
(* every capacity of the channel and every number of source roots.          *)
THEOREM FlowSafe == Spec => []FlowInOrder
  <1>1. IInv => FlowInOrder
    BY DEF IInv
  <1> QED
    BY <1>1, Invariance, PTL

(* load_workspace never panics, and what it returns is all of what was      *)
(* discovered.                                                              *)
THEOREM ResultWhole == Spec => []WholeResult
  <1>1. IInv => WholeResult
    BY DEF IInv
  <1> QED
    BY <1>1, Invariance, PTL

(* The two threads and their channel implement the one step of              *)
(* WorkspaceLoad.                                                           *)
THEOREM Refinement == Spec => AtomicLoad
  <1>1. Init => Atomic!Init
    BY DEF Init, Atomic!Init
  <1>2. ASSUME IInv, IInv', [Next]_vars
        PROVE  [Atomic!Load]_(Atomic!vars)
    <2>1. CASE UNCHANGED status /\ status = "loading"
      BY <2>1 DEF Atomic!vars
    <2>2. CASE status = "loading" /\ status' # "loading"
      <3>1. /\ status' = "returned" /\ phase' = "ended"
            /\ (Atomic!LoadsOf(bundles, layout))'
        BY <1>2, <2>2 DEF IInv, WholeResult
      <3>2. layout' \in Layouts
        BY <1>2, <3>1 DEF IInv, TypeOK
      <3>3. Atomic!LoadsOf(bundles', layout')
        BY <3>1 DEF Atomic!LoadsOf, Atomic!LoadOf, Atomic!SomeOf
      <3> QED
        BY <2>2, <3>1, <3>2, <3>3 DEF Atomic!Load
    <2>3. CASE status # "loading"
      <3>1. UNCHANGED <<status, bundles>>
        BY <1>2, <2>3 DEF IInv, WholeResult, Next, LoaderThread, Discover, SendWorkspace, ReadFile,
              AtFile, SendBundle, SendFinished, Receive, main, loader, vars
      <3> QED
        BY <3>1 DEF Atomic!vars
    <2> QED
      BY <1>2, <2>1, <2>2, <2>3
  <1>3. Spec => [][Next]_vars /\ Init
    BY PTL DEF Spec
  <1> QED
    BY <1>1, <1>2, <1>3, Invariance, PTL DEF AtomicLoad, Atomic!Spec
=============================================================================
