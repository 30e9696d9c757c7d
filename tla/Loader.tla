------------------------------- MODULE Loader -------------------------------
(***************************************************************************)
(* Loading the workspace (loader.rs): a thread discovers the source roots, *)
(* reads their files and sends one message per root through a bounded      *)
(* channel; the main thread, which answers no editor meanwhile, collects   *)
(* them until the last message.                                            *)
(*                                                                         *)
(* A file may be deleted, or turn out not to be UTF-8, between its         *)
(* discovery and its reading: it is left out.                              *)
(***************************************************************************)
EXTENDS Integers, Sequences

CONSTANTS
    Path,      \* the paths of Solidity files
    Layouts,   \* what discovery may find: for each source root, its files
    Capacity,  \* of the channel
    None

ASSUME CapacityAssumption == Capacity \in Nat \ {0}
ASSUME LayoutsAssumption == Layouts \subseteq Seq(Seq(Path)) /\ None \notin Layouts

VARIABLES
    layout,     \* Loader.source_roots, once discovered
    phase,      \* where Loader::run is
    root, file, \* in which root, and at which of its files, it is
    read,       \* the files of that root read so far
    channel,    \* messages sent and not yet received, oldest first
    tx, rx,     \* whether the channel's ends are still held
    workspace,  \* load_workspace's local variables
    bundles,
    status      \* load_workspace is loading, has returned or panicked

loader == <<layout, phase, root, file, read, tx>>
main == <<workspace, bundles, status, rx>>
vars == <<loader, channel, main>>

Bundle(r, files) == [kind |-> "bundle", root |-> r, files |-> files]
WorkspaceMsg == [kind |-> "workspace"]
FinishedMsg == [kind |-> "finished"]

Init == /\ layout = None /\ phase = "discover"
        /\ root = 1 /\ file = 1 /\ read = <<>>
        /\ channel = <<>> /\ tx = TRUE /\ rx = TRUE
        /\ workspace = FALSE /\ bundles = <<>>
        /\ status = "loading"

-----------------------------------------------------------------------------
(* The loader thread.  Sending blocks while the channel is full, and fails  *)
(* once the receiver is gone; the end of the thread drops the sender.       *)

(* Mutant: the channel never fills up. *)
FitsAlways == TRUE

Fits == rx => Len(channel) < Capacity
Send(msg) == channel' = IF rx THEN Append(channel, msg) ELSE channel
GoOn(next) == IF rx THEN phase' = next /\ UNCHANGED tx
                    ELSE phase' = "ended" /\ tx' = FALSE

Discover ==
    /\ phase = "discover"
    /\ layout' \in Layouts
    /\ phase' = "workspace"
    /\ UNCHANGED <<root, file, read, tx, channel, main>>

SendWorkspace ==
    /\ phase = "workspace" /\ Fits
    /\ Send(WorkspaceMsg) /\ GoOn("bundles")
    /\ UNCHANGED <<layout, root, file, read, main>>

AtFile == phase = "bundles" /\ root <= Len(layout) /\ file <= Len(layout[root])

ReadFile ==
    /\ AtFile
    /\ \/ read' = Append(read, layout[root][file])
       \/ UNCHANGED read
    /\ file' = file + 1
    /\ UNCHANGED <<layout, phase, root, tx, channel, main>>

(* Mutant: the files read pile up from root to root. *)
SendBundlePiling ==
    /\ phase = "bundles" /\ root <= Len(layout) /\ file > Len(layout[root]) /\ Fits
    /\ Send(Bundle(root, read)) /\ GoOn("bundles")
    /\ root' = root + 1 /\ file' = 1
    /\ UNCHANGED <<layout, read, main>>

SendBundle ==
    /\ phase = "bundles" /\ root <= Len(layout) /\ file > Len(layout[root]) /\ Fits
    /\ Send(Bundle(root, read)) /\ GoOn("bundles")
    /\ root' = root + 1 /\ file' = 1 /\ read' = <<>>
    /\ UNCHANGED <<layout, main>>

(* The result of the last send is ignored. *)
SendFinished ==
    /\ phase = "bundles" /\ root > Len(layout) /\ Fits
    /\ Send(FinishedMsg)
    /\ phase' = "ended" /\ tx' = FALSE
    /\ UNCHANGED <<layout, root, file, read, main>>

LoaderThread == Discover \/ SendWorkspace \/ ReadFile \/ SendBundle \/ SendFinished

-----------------------------------------------------------------------------
(* The main thread: for msg in rx, which also ends when the channel is      *)
(* empty and the sender gone.                                               *)

(* workspace.unwrap(), then the return; the receiver is dropped. *)
Return == /\ status' = IF workspace THEN "returned" ELSE "panicked"
          /\ rx' = FALSE
          /\ channel' = <<>>
          /\ UNCHANGED <<workspace, bundles>>

(* Mutant: the loop also ends when it finds the channel empty. *)
ReceiveNoWait ==
    /\ status = "loading"
    /\ \/ /\ channel # <<>> /\ Head(channel).kind = "workspace"
          /\ workspace' = TRUE /\ channel' = Tail(channel) /\ UNCHANGED <<bundles, status, rx>>
       \/ /\ channel # <<>> /\ Head(channel).kind = "bundle"
          /\ bundles' = Append(bundles, Head(channel))
          /\ channel' = Tail(channel) /\ UNCHANGED <<workspace, status, rx>>
       \/ /\ channel = <<>> \/ Head(channel).kind = "finished"
          /\ Return
    /\ UNCHANGED loader

(* Mutant: the loader thread is joined before its messages are received. *)
ReceiveJoined ==
    /\ status = "loading" /\ phase = "ended"
    /\ \/ /\ channel # <<>> /\ Head(channel).kind = "workspace"
          /\ workspace' = TRUE /\ channel' = Tail(channel) /\ UNCHANGED <<bundles, status, rx>>
       \/ /\ channel # <<>> /\ Head(channel).kind = "bundle"
          /\ bundles' = Append(bundles, Head(channel))
          /\ channel' = Tail(channel) /\ UNCHANGED <<workspace, status, rx>>
       \/ /\ \/ channel # <<>> /\ Head(channel).kind = "finished"
             \/ channel = <<>> /\ ~tx
          /\ Return
    /\ UNCHANGED loader

Receive ==
    /\ status = "loading"
    /\ \/ /\ channel # <<>> /\ Head(channel).kind = "workspace"
          /\ workspace' = TRUE /\ channel' = Tail(channel) /\ UNCHANGED <<bundles, status, rx>>
       \/ /\ channel # <<>> /\ Head(channel).kind = "bundle"
          /\ bundles' = Append(bundles, Head(channel))
          /\ channel' = Tail(channel) /\ UNCHANGED <<workspace, status, rx>>
       \/ /\ \/ channel # <<>> /\ Head(channel).kind = "finished"
             \/ channel = <<>> /\ ~tx
          /\ Return
    /\ UNCHANGED loader

Next == LoaderThread \/ Receive

(* Both threads run until they end or block. *)
Spec == Init /\ [][Next]_vars /\ WF_vars(LoaderThread) /\ WF_vars(Receive)

-----------------------------------------------------------------------------
(* Properties *)

Atomic == INSTANCE WorkspaceLoad WITH
              roots <- IF status = "returned" THEN bundles ELSE <<>>

(* Types, and the channel's capacity; the ends of the channel are dropped   *)
(* by the end of the thread and by the return.                              *)
Messages == {WorkspaceMsg, FinishedMsg} \cup [kind : {"bundle"}, root : Nat, files : Seq(Path)]
TypeOK ==
    /\ layout \in Layouts \cup {None}
    /\ phase \in {"discover", "workspace", "bundles", "ended"}
    /\ phase = "discover" <=> layout = None
    /\ root \in Nat \ {0} /\ file \in Nat \ {0} /\ read \in Seq(Path)
    /\ channel \in Seq(Messages) /\ Len(channel) <= Capacity
    /\ workspace \in BOOLEAN /\ bundles \in Seq(Messages)
    /\ tx \in BOOLEAN /\ (tx <=> phase # "ended")
    /\ rx \in BOOLEAN /\ status \in {"loading", "returned", "panicked"}
    /\ (rx <=> status = "loading")

(* What was sent is what was received and what is still in the channel, in  *)
(* the order of run: the workspace, every root so far with files of its own *)
(* only, and the last message when all roots are through.  So no bundle is  *)
(* lost to a full channel, or cut off by a receiver gone too early.         *)
Received == (IF workspace THEN <<WorkspaceMsg>> ELSE <<>>) \o bundles
Flow == Received \o channel
Sent == IF phase = "ended" THEN Len(layout) + 2 ELSE IF phase = "bundles" THEN root ELSE 0
IsMessage(msg, i) ==
    /\ i = 1 => msg = WorkspaceMsg
    /\ i \in 2 .. (Len(layout) + 1) => Atomic!LoadOf(msg, i - 1, layout)
    /\ i = Len(layout) + 2 => msg = FinishedMsg
FlowInOrder == status = "loading" => /\ Len(Flow) = Sent
                                /\ \A i \in 1 .. Len(Flow) : IsMessage(Flow[i], i)

(* load_workspace never fails to unwrap the workspace, nor returns before   *)
(* every root is there: if it has returned, then with all of one discovery. *)
WholeResult ==
    status # "loading" => /\ status = "returned" /\ phase = "ended"
                          /\ Atomic!LoadsOf(bundles, layout)

(* To its caller, load_workspace is one step. *)
AtomicLoad == Atomic!Spec

(* The main thread gets to serve the editor, and the loader thread ends,    *)
(* however many more messages than the channel holds there are to send.     *)
Loaded == <>(status = "returned" /\ phase = "ended")
=============================================================================
