------------------------ MODULE NodeFileProperties ------------------------
(* What uploads and downloads through the console come to.                 *)
EXTENDS NodeFiles

Ops   == Writes \cup Asks \cup {"mv", "console"}
Lines == Chunks \cup {"no file", "said"}
Names == Paths \cup {None}

Commands == [kind : Ops, path : Names, to : Names, data : Seq(Chunks), off : Nat,
             by : Calls \cup {None}]
CallRecs == [pc : {"idle", "attach", "write", "listen"}, op : Ops \cup {"none"},
             path : Names, to : Names, todo : Seq(Chunks), life : Nat, off : Nat,
             heard : Seq(Lines), got : Seq(Lines)]
Files    == [path : Names, base : Seq(Chunks), chunks : Seq(Chunks), left : Seq(Chunks),
             clean : BOOLEAN]

TypeOK ==
    /\ up \in BOOLEAN /\ life \in 1 .. MaxLives /\ begun \in 0 .. MaxBegun
    /\ fs \in [Paths -> Seq(Chunks) \cup {None}]
    /\ stdin \in Seq(Commands)
    /\ call \in [Calls -> CallRecs]
    /\ sent \in [Calls -> Files]
    /\ mixed \subseteq Calls

\* The chunks of an upload to p that wait on the standard input.
Adds(cmd, p) == IF cmd.kind = "append" /\ cmd.path = p THEN cmd.data ELSE <<>>
Appended(p)  == [i \in DOMAIN stdin |-> Adds(stdin[i], p)]
Queued(p)    == FlattenSeq(Appended(p))

\* Until another call touches the file or a stop loses its lines, an upload
\* neither loses, repeats nor reorders a chunk, however it ends: what the file
\* held before and what was sent is the file, what waits to be read, and what
\* is not yet written.  (The file is added to, not replaced.)
UploadConserved == \A c \in Calls :
    sent[c].clean =>
        Content(sent[c].path) \o Queued(sent[c].path) \o sent[c].left
            = sent[c].base \o sent[c].chunks

\* A download nobody talked into, of a file nobody touched, has so far handed
\* on the beginning of that file.
DownloadPrefix == \A c \in Calls :
    call[c].op = "dd" /\ sent[c].clean /\ c \notin mixed =>
        call[c].got = SubSeq(Content(call[c].path), 1, call[c].off)

-----------------------------------------------------------------------------
(* What makes them inductive.                                              *)

\* Whatever but the console's command names a file, and a move names two; a
\* call was not attached to a life still to come.
Named ==
    /\ \A i \in DOMAIN stdin :
          /\ stdin[i].kind # "console" => stdin[i].path \in Paths
          /\ stdin[i].kind = "mv" => stdin[i].to \in Paths
    /\ \A c \in Calls :
          /\ call[c].op \notin {"none", "console"} => call[c].path \in Paths
          /\ call[c].op = "mv" => call[c].to \in Paths
          /\ call[c].life <= life
          /\ call[c].pc # "idle" => call[c].op \in Ops

\* A call whose line waits is listening for the output of that line, and it
\* has one line: a stop would have taken the line and ended the call.
LineAwaited ==
    /\ ~up => stdin = <<>>
    /\ \A i \in DOMAIN stdin : LET cmd == stdin[i] IN cmd.by # None =>
          /\ call[cmd.by].pc = "listen" /\ Attached(cmd.by)
          /\ cmd.kind = call[cmd.by].op /\ cmd.path = call[cmd.by].path
          /\ cmd.off = call[cmd.by].off
    /\ \A i, j \in DOMAIN stdin : stdin[i].by = stdin[j].by /\ stdin[i].by # None => i = j

\* A call works on what it was sent, only uploads and downloads keep a record
\* of it, and only a call that asked listens.
OnItsFile == \A c \in Calls :
    /\ call[c].pc = "listen" => call[c].op \in Asks
    /\ call[c].pc # "idle" /\ call[c].op \in {"append", "dd"} => sent[c].path = call[c].path
    /\ call[c].pc # "idle" /\ call[c].op = "append" =>
          sent[c].left = call[c].todo /\ call[c].todo # <<>>
    /\ call[c].pc # "idle" /\ call[c].op \notin {"append", "dd"} => ~sent[c].clean
    /\ call[c].pc = "idle" => call[c] = Idle

\* While it is clean, the lines that would change the file are an upload's,
\* and there are none for a download.
Alone == \A c \in Calls : sent[c].clean =>
    /\ sent[c].path \in Paths
    /\ \A i \in DOMAIN stdin : Touches(stdin[i], sent[c].path) =>
          stdin[i].kind = "append" /\ call[c].op # "dd"

\* A download has heard nothing, or the one piece it asked for.
PieceHeard == \A c \in Calls : call[c].op = "dd" /\ sent[c].clean /\ c \notin mixed =>
    LET x == call[c]
    IN  /\ x.off <= Len(Content(x.path))
        /\ \/ x.heard = <<>>
           \/ /\ x.pc = "listen" /\ x.heard = Piece(Content(x.path), x.off)
              /\ \A i \in DOMAIN stdin : stdin[i].by # c

FileInv ==
    /\ TypeOK /\ Named /\ LineAwaited /\ OnItsFile /\ Alone /\ PieceHeard
    /\ UploadConserved /\ DownloadPrefix

=============================================================================
