----------------------------- MODULE NodeFiles -----------------------------
(***************************************************************************)
(* Files through the console: what crates/node/src/{server,files}.rs and   *)
(* send_command, send_command_with_output of docker.rs make of one         *)
(* container, called by the handlers of crates/panel/src/files.rs and      *)
(* server_command of servers.rs through node_client.rs.                    *)
(*                                                                         *)
(* Every operation on files is a line written to the standard input of the *)
(* container's process, which is taken to be a shell.  A write is answered *)
(* once the line is written.  A read collects all the container prints     *)
(* from the moment it is attached until the output ends, and the output    *)
(* ends when the container stops.                                          *)
(***************************************************************************)
EXTENDS Naturals, SequencesExt

CONSTANTS
    Paths,       \* names of files; directories are left out
    Chunks,      \* pieces of content
    Uploads,     \* sequences of chunks that clients send
    ChunkSize,   \* chunks one `dd` of a download reads
    Calls,       \* slots for calls in flight on the node
    MaxBegun,    \* bound: calls over the whole behaviour
    MaxLives,    \* bound: starts of the container
    None         \* no file, no path

ASSUME ConstantsOK ==
    /\ ChunkSize \in Nat /\ MaxBegun \in Nat /\ MaxLives \in Nat \ {0}
    /\ Uploads \subseteq Seq(Chunks) \ {<<>>}   \* a stream of none writes no line
    /\ None \notin Paths \cup Calls \cup Seq(Chunks)

VARIABLES
    up,          \* does the container run?
    life,        \* how many times it was started
    stdin,       \* lines written to it and not yet read
    fs,          \* its files, which outlive a stop
    call,        \* calls in flight
    begun,       \* how many calls there were
    sent,        \* history: each slot's last upload or download, what the
                 \* file held before, what is not yet written, and whether
                 \* no other command touched the file and no stop lost lines
    mixed        \* history: calls that heard another call's output

vars == <<up, life, stdin, fs, call, begun, sent, mixed>>

NoCommand == [kind |-> "none", path |-> None, to |-> None, data |-> <<>>,
              off |-> 0, by |-> None]
Idle   == [pc |-> "idle", op |-> "none", path |-> None, to |-> None, todo |-> <<>>,
           life |-> 0, off |-> 0, heard |-> <<>>, got |-> <<>>]
NoFile == [path |-> None, base |-> <<>>, chunks |-> <<>>, left |-> <<>>, clean |-> FALSE]

Writes  == {"write", "append", "rm"}
Asks    == {"cat", "dd"}

Content(p) == IF fs[p] = None THEN <<>> ELSE fs[p]

Touches(c, p) ==
    \/ c.kind \in Writes /\ c.path = p
    \/ c.kind = "mv" /\ p \in {c.path, c.to}

Init ==
    /\ up = TRUE /\ life = 1
    /\ stdin = <<>>
    /\ fs = [p \in Paths |-> None]
    /\ call = [c \in Calls |-> Idle]
    /\ begun = 0
    /\ sent = [c \in Calls |-> NoFile]
    /\ mixed = {}

-----------------------------------------------------------------------------
Busy(c)   == call[c].pc # "idle"
Finish(c) == call' = [call EXCEPT ![c] = Idle]

\* Is another call about to touch p, or a line of one waiting?
Contested(c, p) ==
    \/ \E i \in DOMAIN stdin : Touches(stdin[i], p)
    \/ \E d \in Calls \ {c} : Busy(d) /\ p \in {call[d].path, call[d].to}

\* The panel's handler has let the call through; see module Access.
Begin(c, op, p, q, data) ==
    /\ ~Busy(c) /\ begun < MaxBegun
    /\ begun' = begun + 1
    /\ call' = [call EXCEPT ![c] =
          [Idle EXCEPT !.pc = "attach", !.op = op, !.path = p, !.to = q, !.todo = data]]
    /\ sent' = IF op \in {"append", "dd"}
               THEN [sent EXCEPT ![c] = [path |-> p, base |-> Content(p), chunks |-> data,
                                         left |-> data, clean |-> ~Contested(c, p)]]
               ELSE [sent EXCEPT ![c] = NoFile]
    /\ mixed' = mixed \ {c}
    /\ UNCHANGED <<up, life, stdin, fs>>

\* An upload that goes on to the next chunk when one cannot be attached.
AttachOrSkip(c) ==
    /\ call[c].pc = "attach"
    /\ IF up THEN call' = [call EXCEPT ![c].pc = "write", ![c].life = life] /\ UNCHANGED sent
       ELSE IF call[c].op = "append" /\ Len(call[c].todo) > 1
       THEN /\ call' = [call EXCEPT ![c].todo = Tail(@)]
            /\ sent' = [sent EXCEPT ![c].left = Tail(@)]
       ELSE Finish(c) /\ UNCHANGED sent
    /\ UNCHANGED <<up, life, stdin, fs, begun, mixed>>

\* attach_container, an error while the container is stopped.
Attach(c) ==
    /\ call[c].pc = "attach"
    /\ IF up THEN call' = [call EXCEPT ![c].pc = "write", ![c].life = life]
       ELSE Finish(c)
    /\ UNCHANGED <<up, life, stdin, fs, begun, sent, mixed>>

\* The line a call writes.  upload_file sets `first` to false before it hands
\* on `!first`, so that every chunk, the first too, is appended.
Command(c) ==
    LET x == call[c]
    IN  [kind |-> x.op, path |-> x.path, to |-> x.to, off |-> x.off,
         by |-> IF x.op \in Asks THEN c ELSE None,
         data |-> IF x.op = "append" THEN SubSeq(x.todo, 1, 1) ELSE x.todo]

Attached(c) == up /\ call[c].life = life

\* The line written, other calls' uploads of the file are no longer alone.
Foul(c, cmd) ==
    [d \in Calls |-> IF d # c /\ sent[d].clean /\ Touches(cmd, sent[d].path)
                     THEN [sent[d] EXCEPT !.clean = FALSE] ELSE sent[d]]

\* write_all and flush: a call without output is answered; an upload goes on
\* with its next chunk; a read waits for the output.
Write(c) ==
    LET x == call[c]
    IN  /\ x.pc = "write" /\ Attached(c)
        /\ stdin' = Append(stdin, Command(c))
        /\ IF x.op = "append" /\ Len(x.todo) > 1
           THEN call' = [call EXCEPT ![c].pc = "attach", ![c].todo = Tail(@)]
           ELSE IF x.op \in Asks THEN call' = [call EXCEPT ![c].pc = "listen"]
           ELSE Finish(c)
        /\ sent' = IF x.op = "append"
                   THEN [Foul(c, Command(c)) EXCEPT ![c].left = Tail(@)]
                   ELSE Foul(c, Command(c))
        /\ UNCHANGED <<up, life, fs, begun, mixed>>

\* The container stopped in between: an error.
WriteFails(c) ==
    /\ call[c].pc = "write" /\ ~Attached(c)
    /\ Finish(c)
    /\ UNCHANGED <<up, life, stdin, fs, begun, sent, mixed>>

\* The output ends: get_file_contents answers what it heard.
Hangup(c) ==
    /\ call[c].pc = "listen"
    /\ call[c].op = "cat" /\ ~Attached(c)
    /\ Finish(c)
    /\ UNCHANGED <<up, life, stdin, fs, begun, sent, mixed>>

\* A download that counts the bytes it asked for, not those it got.
NextChunkAsked(c) ==
    LET x == call[c]
    IN  /\ x.pc = "listen" /\ x.op = "dd" /\ ~Attached(c)
        /\ IF x.heard = <<>> THEN Finish(c)
           ELSE call' = [call EXCEPT ![c] =
                    [x EXCEPT !.pc = "attach", !.got = @ \o x.heard, !.heard = <<>>,
                              !.off = @ + ChunkSize + 1]]
        /\ UNCHANGED <<up, life, stdin, fs, begun, sent, mixed>>

\* download_file: an empty chunk is the end of the file, any other is sent on
\* and the next one asked for.
NextChunk(c) ==
    LET x == call[c]
    IN  /\ x.pc = "listen" /\ x.op = "dd" /\ ~Attached(c)
        /\ IF x.heard = <<>> THEN Finish(c)
           ELSE call' = [call EXCEPT ![c] =
                    [x EXCEPT !.pc = "attach", !.got = @ \o x.heard, !.heard = <<>>,
                              !.off = @ + Len(x.heard)]]
        /\ UNCHANGED <<up, life, stdin, fs, begun, sent, mixed>>

\* The client goes away; lines written stay written, and their output is
\* nobody's.
Drop(c) ==
    /\ Busy(c)
    /\ Finish(c)
    /\ stdin' = [i \in DOMAIN stdin |-> IF stdin[i].by = c THEN [stdin[i] EXCEPT !.by = None]
                                       ELSE stdin[i]]
    /\ UNCHANGED <<up, life, fs, begun, sent, mixed>>

-----------------------------------------------------------------------------
(* The container.                                                          *)

\* dd bs=1 skip=off count=ChunkSize.
Piece(s, off) == SubSeq(s, off + 1, IF Len(s) < off + ChunkSize THEN Len(s) ELSE off + ChunkSize)

\* What a command prints; `dd` has its errors thrown away.
Output(cmd) ==
    CASE cmd.kind = "cat" -> IF fs[cmd.path] = None THEN <<"no file">> ELSE fs[cmd.path]
      [] cmd.kind = "dd" -> Piece(Content(cmd.path), cmd.off)
      [] cmd.kind = "console" -> <<"said">>
      [] OTHER -> <<>>

Effect(cmd) ==
    CASE cmd.kind = "write" -> [fs EXCEPT ![cmd.path] = cmd.data]
      [] cmd.kind = "append" -> [fs EXCEPT ![cmd.path] = Content(cmd.path) \o cmd.data]
      [] cmd.kind = "rm" -> [fs EXCEPT ![cmd.path] = None]
      [] cmd.kind = "mv" /\ fs[cmd.path] # None ->
            [fs EXCEPT ![cmd.to] = fs[cmd.path], ![cmd.path] = None]
      [] OTHER -> fs

Listening(c) == call[c].pc \in {"write", "listen"} /\ call[c].op \in Asks /\ Attached(c)

\* The shell reads a line and obeys it; all that are attached hear it.
Run ==
    LET cmd   == Head(stdin)
        lines == Output(cmd)
    IN  /\ up /\ stdin # <<>>
        /\ stdin' = Tail(stdin)
        /\ fs' = Effect(cmd)
        /\ call' = [c \in Calls |-> IF Listening(c)
                                    THEN [call[c] EXCEPT !.heard = @ \o lines] ELSE call[c]]
        /\ mixed' = mixed \cup {c \in Calls : Listening(c) /\ cmd.by # c /\ lines # <<>>}
        /\ UNCHANGED <<up, life, begun, sent>>

\* What waits on the standard input is lost.
Stop ==
    /\ up
    /\ up' = FALSE
    /\ stdin' = <<>>
    /\ sent' = [c \in Calls |->
          IF \E i \in DOMAIN stdin : Touches(stdin[i], sent[c].path)
          THEN [sent[c] EXCEPT !.clean = FALSE] ELSE sent[c]]
    /\ UNCHANGED <<life, fs, call, begun, mixed>>

Start ==
    /\ ~up /\ life < MaxLives
    /\ up' = TRUE /\ life' = life + 1
    /\ UNCHANGED <<stdin, fs, call, begun, sent, mixed>>

Container == Run \/ Stop \/ Start

Client(c) ==
    \E p, q \in Paths :
        \/ p = q /\ \E data \in Uploads : \/ Begin(c, "write", p, None, data)
                                          \/ Begin(c, "append", p, None, data)
        \/ p = q /\ \E op \in {"rm", "cat", "dd"} : Begin(c, op, p, None, <<>>)
        \/ p # q /\ Begin(c, "mv", p, q, <<>>)

Handler(c) ==
    \/ Attach(c) \/ Write(c) \/ WriteFails(c) \/ Hangup(c) \/ NextChunk(c) \/ Drop(c)

FileStep ==
    \/ \E c \in Calls : Client(c) \/ Begin(c, "console", None, None, <<>>) \/ Handler(c)
    \/ Container

FileSpec == Init /\ [][FileStep]_vars

=============================================================================
