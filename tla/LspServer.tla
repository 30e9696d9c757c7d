------------------------------ MODULE LspServer ------------------------------
(***************************************************************************)
(* The server's main loop (lsp.rs), the text synchronisation it drives     *)
(* (open and apply_changes of salsa/db.rs) and the editor at the other end *)
(* of the connection.                                                      *)
(*                                                                         *)
(* The editor changes its buffers at once and tells the server in order,   *)
(* without waiting: when the server handles a message, the editor may be   *)
(* several messages further.  The server handles one message at a time;    *)
(* the changes of one didChange are steps of their own, and nothing else   *)
(* of the server runs between them.                                        *)
(*                                                                         *)
(* The parser's cache, salsa's memos and the parse query are those of      *)
(* IncrementalParser, whose texts are the bytes of the ropes kept here.    *)
(***************************************************************************)
EXTENDS Rope

CONSTANTS
    File,        \* the files the editor may show
    Rooted,      \* those whose path is inside a source root
    Disk,        \* the text on disk of the files loaded at start
    OpenTexts,   \* bound: the texts of a buffer when it is opened
    Inserts,     \* bound: the texts one change inserts
    MaxDoc,      \* bound: the length of a buffer
    MaxSent,     \* bound: the messages the editor sends
    MaxChanges,  \* bound: the changes it makes to buffers
    Dirty, NoTree, NoAnswer, NoReply, Whole, None

Loaded == DOMAIN Disk

ASSUME FileAssumption == /\ Loaded \subseteq Rooted /\ Rooted \subseteq File
                         /\ MaxSent \in Nat /\ MaxChanges \in Nat /\ MaxDoc \in Nat
ASSUME TextsAssumption == /\ \A f \in Loaded : Disk[f] \in Seq(Char)
                          /\ OpenTexts \subseteq Seq(Char) /\ Inserts \subseteq Seq(Char)

Positions == [line : Nat, character : Nat]
Ranges == [start : Positions, end : Positions]
ASSUME WholeAssumption == Whole \notin Ranges
ASSUME DirtyAssumption == Dirty \notin ByteSet

VARIABLES
    \* the editor
    doc,      \* the buffer of every file
    opened,   \* the files with an open buffer
    sent,     \* how many messages it has sent
    changed,  \* how many changes it has made
    \* the connection
    inbox,    \* messages sent and not yet handled, oldest first
    reply,    \* the last response
    \* the server
    alive,    \* it has not panicked
    rope,     \* File.text: the text of every file
    known,    \* Files.file: the files that have an input
    todo,     \* the changes of the current didChange still to apply
    current,  \* the file of the current didChange
    cache, memo, stale, answer   \* see IncrementalParser

editor == <<doc, opened, sent, changed>>
syntax == <<cache, memo, stale, answer>>
server == <<alive, rope, known, todo, current, syntax>>
vars == <<editor, inbox, reply, server>>

Texts == [f \in File |-> Bytes(rope[f])]

Parser == INSTANCE IncrementalParser WITH
              text <- Texts, Byte <- ByteSet, NL <- LFByte,
              MaxLen <- 4 * MaxDoc, MaxIns <- 4 * MaxDoc

Init == /\ doc = [f \in File |-> <<>>]
        /\ opened = {}
        /\ sent = 0 /\ changed = 0
        /\ inbox = <<>>
        /\ reply = NoReply
        /\ alive = TRUE
        /\ rope = [f \in File |-> IF f \in Loaded THEN Disk[f] ELSE <<>>]
        /\ known = Loaded
        /\ todo = <<>> /\ current = None
        /\ cache = [f \in File |-> NoTree]
        /\ memo = [f \in File |-> NoTree]
        /\ stale = {}
        /\ answer = NoAnswer

-----------------------------------------------------------------------------
(* The editor.  Documents are synchronised as the server asked for          *)
(* (TextDocumentSyncKind::INCREMENTAL): every change of a batch is placed   *)
(* in the buffer that the changes before it have made.                      *)

Send(msg) == /\ sent < MaxSent
             /\ sent' = sent + 1
             /\ inbox' = Append(inbox, msg)
             /\ UNCHANGED <<reply, server>>

EditorOpen(f) ==
    /\ f \notin opened
    /\ opened' = opened \cup {f}
    /\ \E t \in OpenTexts : /\ doc' = [doc EXCEPT ![f] = t]
                            /\ Send([kind |-> "didOpen", file |-> f, text |-> t])
    /\ UNCHANGED changed

EditorClose(f) ==
    /\ f \in opened
    /\ opened' = opened \ {f}
    /\ Send([kind |-> "didClose", file |-> f])
    /\ UNCHANGED <<doc, changed>>

(* The changes that fit d, each with the buffer it leaves. *)
ChangesOf(d) ==
    LET at == [i \in 0 .. Len(d) |-> PositionAt(d, i)]
    IN  {[range |-> [start |-> at[x[1]], end |-> at[x[2]]], text |-> x[3],
          after |-> Replaced(d, x[1], x[2], x[3])] :
            x \in {y \in (0 .. Len(d)) \X (0 .. Len(d)) \X Inserts :
                y[1] <= y[2] /\ Len(d) - (y[2] - y[1]) + Len(y[3]) <= MaxDoc}}
        \cup {[range |-> Whole, text |-> t, after |-> t] : t \in OpenTexts}
Event(c) == [range |-> c.range, text |-> c.text]

SendChanges(f, batch, d) ==
    /\ changed + Len(batch) <= MaxChanges
    /\ changed' = changed + Len(batch)
    /\ doc' = [doc EXCEPT ![f] = d]
    /\ Send([kind |-> "didChange", file |-> f, changes |-> batch])

(* A didChange carries one change, or two that build on each other. *)
EditorChange(f) ==
    /\ f \in opened
    /\ \E c1 \in ChangesOf(doc[f]) :
          \/ SendChanges(f, <<Event(c1)>>, c1.after)
          \/ \E c2 \in ChangesOf(c1.after) :
                SendChanges(f, <<Event(c1), Event(c2)>>, c2.after)
    /\ UNCHANGED opened

(* A request on an open buffer, at a position in it.  The buffer and the    *)
(* index are remembered with the message, for the properties only.          *)
EditorAsk(f) ==
    /\ f \in opened
    /\ \E i \in 0 .. Len(doc[f]) :
          Send([kind |-> "request", file |-> f, position |-> PositionAt(doc[f], i),
                asked |-> [doc |-> doc[f], index |-> i]])
    /\ UNCHANGED <<doc, opened, changed>>

Editor == \E f \in File : EditorOpen(f) \/ EditorClose(f) \/ EditorChange(f) \/ EditorAsk(f)

-----------------------------------------------------------------------------
(* The server.  A message is taken when the one before it is done with.     *)

Receive(kind) == /\ alive /\ todo = <<>> /\ inbox # <<>>
                 /\ Head(inbox).kind = kind
                 /\ inbox' = Tail(inbox)
                 /\ UNCHANGED editor

(* A panic ends the process: nothing in it catches one. *)
Panic == /\ alive' = FALSE
         /\ UNCHANGED <<reply, rope, known, todo, current, syntax>>

SetRope(f, r) == /\ rope' = [rope EXCEPT ![f] = r]
                 /\ stale' = stale \cup {f}
                 /\ UNCHANGED <<memo, answer>>

(* SalsaDatabase::reset *)
Reset(f, r) == SetRope(f, r) /\ Parser!Invalidate(f)

(* Mutant: a file that is already there keeps the text it was loaded with. *)
OpenKeepsDisk ==
    /\ Receive("didOpen")
    /\ LET f == Head(inbox).file
           r == Head(inbox).text
       IN  \/ f \notin known /\ f \in Rooted /\ Reset(f, r) /\ known' = known \cup {f}
           \/ (f \in known \/ f \notin Rooted) /\ UNCHANGED <<rope, known, syntax>>
    /\ UNCHANGED <<reply, alive, todo, current>>

(* SalsaDatabase::open: a known file is reset, "because on-disk version can *)
(* vary from editor version"; a new one in a source root gets an input of   *)
(* its own; any other is left out.                                          *)
Open ==
    /\ Receive("didOpen")
    /\ LET f == Head(inbox).file
           r == Head(inbox).text
       IN  \/ f \in known /\ Reset(f, r) /\ UNCHANGED known
           \/ /\ f \notin known /\ f \in Rooted
              /\ SetRope(f, r) /\ known' = known \cup {f} /\ UNCHANGED cache
           \/ f \notin known /\ f \notin Rooted /\ UNCHANGED <<rope, known, syntax>>
    /\ UNCHANGED <<reply, alive, todo, current>>

(* SalsaDatabase::apply_changes, up to its loop *)
BeginChanges ==
    /\ Receive("didChange")
    /\ LET msg == Head(inbox)
       IN  \/ msg.file \in known /\ todo' = msg.changes /\ current' = msg.file
           \/ msg.file \notin known /\ UNCHANGED <<todo, current>>
    /\ UNCHANGED <<reply, alive, rope, known, syntax>>

(* One round of the loop: a change of the whole text, or of a range of it,  *)
(* where start and end are looked up in the rope the earlier rounds left.   *)
ApplyChange ==
    LET f == current
        change == Head(todo)
    IN  /\ alive /\ todo # <<>>
        /\ \/ /\ change.range = Whole
              /\ Reset(f, change.text)
              /\ todo' = Tail(todo)
              /\ UNCHANGED <<reply, alive, known, current>>
           \/ /\ change.range # Whole
              /\ IsPosition(rope[f], change.range.start) /\ IsPosition(rope[f], change.range.end)
              /\ LET start == ToRopeIdx(rope[f], change.range.start)
                     end   == ToRopeIdx(rope[f], change.range.end)
                     new   == Replaced(rope[f], start, end, change.text)
                 IN  /\ SetRope(f, new)
                     /\ Parser!EditCache(f, Parser!InputEdit(Bytes(rope[f]), Bytes(new),
                            CharToByte(rope[f], start), CharToByte(rope[f], end),
                            Bytes(change.text)))
              /\ todo' = Tail(todo)
              /\ UNCHANGED <<reply, alive, known, current>>
           \/ /\ change.range # Whole
              /\ ~(IsPosition(rope[f], change.range.start) /\ IsPosition(rope[f], change.range.end))
              /\ Panic
        /\ UNCHANGED <<editor, inbox>>

(* Notifications handle_notification has no case for. *)
Ignore == Receive("didClose") /\ UNCHANGED <<reply, server>>

(* SalsaDatabase::convert, and when it answers: a file it does not know, or *)
(* a position the rope does not have, makes it panic.                       *)
Converts(f, pos) == f \in known /\ IsPosition(rope[f], pos)
Convert(f, pos) == CharToByte(rope[f], ToRopeIdx(rope[f], pos))

(* A request at a position: it is converted and the parse query answers for *)
(* the file; then there is a response or, when the handler fails, none.     *)
Request ==
    /\ Receive("request")
    /\ LET msg == Head(inbox)
           f == msg.file
       IN  \/ /\ Converts(f, msg.position)
              /\ UNCHANGED <<rope, known, todo, current, alive>>
              /\ Parser!Parse(f)
              /\ \/ reply' = [asked |-> msg.asked, offset |-> Convert(f, msg.position),
                              source |-> answer'.source, tree |-> answer'.tree]
                 \/ UNCHANGED reply
           \/ ~Converts(f, msg.position) /\ Panic

Server == Open \/ BeginChanges \/ ApplyChange \/ Ignore \/ Request

Next == Editor \/ Server

(* The loop runs as long as there is something to handle; the editor may    *)
(* stop at any time.                                                        *)
Spec == Init /\ [][Next]_vars /\ WF_vars(Server)

-----------------------------------------------------------------------------
(* Properties *)

(* What the editor meant by a message: the index of the boundary that has   *)
(* the given position, not the way the server finds it.                     *)
IndexOf(d, pos) == CHOOSE i \in 0 .. Len(d) : PositionAt(d, i) = pos
Made(d, change) ==
    IF change.range = Whole THEN change.text
    ELSE Replaced(d, IndexOf(d, change.range.start), IndexOf(d, change.range.end), change.text)
Replayed(d, changes) ==
    LET D[k \in 0 .. Len(changes)] == IF k = 0 THEN d ELSE Made(D[k - 1], changes[k])
    IN  D[Len(changes)]
After(d, f, msg) ==
    CASE msg.file = f /\ msg.kind = "didOpen"   -> msg.text
      [] msg.file = f /\ msg.kind = "didChange" -> Replayed(d, msg.changes)
      [] OTHER -> d

(* The text of f the server will have when all that is under way has been   *)
(* handled.                                                                 *)
Upcoming(f) ==
    LET now == IF f = current THEN Replayed(rope[f], todo) ELSE rope[f]
        D[k \in 0 .. Len(inbox)] == IF k = 0 THEN now ELSE After(D[k - 1], f, inbox[k])
    IN  D[Len(inbox)]

(* Text synchronisation: at every moment, the server's text of an open file *)
(* of the workspace, with all changes still under way made to it, is the    *)
(* editor's buffer.  Neither batches whose changes build on each other, nor *)
(* characters of several bytes or code units, nor a file the server first   *)
(* hears of from the editor, nor a buffer closed and opened anew, part the  *)
(* two.                                                                     *)
Mirror == alive => \A f \in opened \cap Rooted : Upcoming(f) = doc[f]

(* A response is about the buffer the user saw when asking, whatever was    *)
(* typed since, and about the place that was asked for: offset and tree are *)
(* those of that buffer parsed from scratch.                                *)
AnswersAsked ==
    reply # NoReply =>
        LET text == Bytes(reply.asked.doc)
        IN  /\ reply.source = text
            /\ reply.tree = Parser!Fresh(text)
            /\ reply.offset = CharToByte(reply.asked.doc, reply.asked.index)

(* The server panics on nothing but a request on a file outside every       *)
(* source root: positions sent by the editor, in batches or late, always    *)
(* exist in the rope they are looked up in.                                 *)
PanicsOutsideOnly ==
    [][alive /\ ~alive' => /\ todo = <<>> /\ Head(inbox).kind = "request"
                           /\ Head(inbox).file \notin Rooted]_vars

(* When the editor comes to rest, the server ends up with its buffers, or   *)
(* has panicked.                                                            *)
Converges == <>[](alive => /\ inbox = <<>> /\ todo = <<>>
                           /\ \A f \in opened \cap Rooted : rope[f] = doc[f])

(* However it is driven, the syntax layer implements the abstract service.  *)
Syntax == INSTANCE AstService WITH text <- Texts, Byte <- ByteSet, NL <- LFByte
SyntaxSpec == Syntax!Spec

(* SalsaDatabase::convert unwraps the file of a request: it takes for       *)
(* granted that the editor only asks about files the server knows.          *)
ConvertKnowsFile == alive
=============================================================================
