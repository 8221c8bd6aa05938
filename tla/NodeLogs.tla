------------------------------ MODULE NodeLogs ------------------------------
(***************************************************************************)
(* The log of one container on its way to its readers: log_stream in       *)
(* crates/node/src/docker.rs, forward_logs in stream.rs, stream_logs in    *)
(* server.rs, the client of crates/panel/src/node_client.rs and            *)
(* stream_server_logs in servers.rs.                                       *)
(*                                                                         *)
(* stream_logs answers at once with the receiving end of a bounded channel *)
(* and spawns a forwarder, which waits for a chunk of Docker's stream,     *)
(* then for room in the channel.  The panel turns each message into an     *)
(* event.  A reader who closes the page drops the panel's stream and with  *)
(* it the receiving end, which the forwarder notices only when it sends.   *)
(***************************************************************************)
EXTENDS NodeFiles

CONSTANTS
    Streams,     \* readers of the log
    Cap          \* room in a channel: 32 in the code

ASSUME CapOK == Cap \in Nat \ {0}

VARIABLES
    printed,     \* how many chunks Docker keeps of the container's output
    log          \* for each reader, the forwarder, the channel, the events

allvars == <<vars, printed, log>>

Err == 0         \* an error message; chunks are told apart by their number

\* `life` is the container's when the stream was opened, `pos` chunks were
\* read from Docker, `hand` is the message being sent, `rx` says whether the
\* receiving end lives, `got` is what the reader was sent; `atOpen` and `late`
\* are history: what had been printed when the stream was opened, and the
\* chunks read after the reader was gone.
Closed == [pc |-> "closed", follow |-> FALSE, life |-> 0, pos |-> 0, hand |-> <<>>,
           chan |-> <<>>, rx |-> FALSE, got |-> <<>>, atOpen |-> 0, late |-> 0]

LogInit ==
    /\ Init
    /\ printed = 0
    /\ log = [s \in Streams |-> Closed]

-----------------------------------------------------------------------------
Set(s, r) == log' = [log EXCEPT ![s] = r] /\ UNCHANGED <<vars, printed>>

\* stream_logs: the channel, the forwarder, the answer.
Open(s, follow) ==
    /\ log[s].pc = "closed"
    /\ Set(s, [Closed EXCEPT !.pc = "next", !.follow = follow, !.rx = TRUE,
                             !.life = life, !.atOpen = printed])

Unread(s) == log[s].pos < printed

\* Docker has a chunk.
Next1(s) ==
    LET x == log[s]
    IN  /\ x.pc = "next" /\ Unread(s)
        /\ Set(s, [x EXCEPT !.pc = "send", !.pos = @ + 1, !.hand = <<x.pos + 1>>,
                            !.late = IF x.rx THEN @ ELSE @ + 1])

\* Docker fails and nobody is told.
NextFailsUntold(s) ==
    /\ log[s].pc = "next"
    /\ Set(s, [log[s] EXCEPT !.pc = "done"])

\* Docker fails: the error is the last message.
NextFails(s) ==
    /\ log[s].pc = "next"
    /\ Set(s, [log[s] EXCEPT !.pc = "sendErr", !.hand = <<Err>>])

\* Docker's stream ends: all is read and, if it follows the container, the
\* container has stopped.
NextEnds(s) ==
    LET x == log[s]
    IN  /\ x.pc = "next" /\ ~Unread(s) /\ (x.follow => ~up \/ life # x.life)
        /\ Set(s, [x EXCEPT !.pc = "done"])

After(x) == IF x.pc = "sendErr" THEN "done" ELSE "next"

\* A send that throws the chunk away when the channel is full.
TrySend(s) ==
    LET x == log[s]
    IN  /\ x.pc \in {"send", "sendErr"} /\ x.rx
        /\ Set(s, [x EXCEPT !.pc = After(x), !.hand = <<>>,
                            !.chan = IF Len(@) < Cap THEN @ \o x.hand ELSE @])

\* tx.send(..).await: waits for room.
Send(s) ==
    LET x == log[s]
    IN  /\ x.pc \in {"send", "sendErr"} /\ x.rx /\ Len(x.chan) < Cap
        /\ Set(s, [x EXCEPT !.pc = After(x), !.hand = <<>>, !.chan = @ \o x.hand])

\* A failed send that is ignored.
SendIgnored(s) ==
    LET x == log[s]
    IN  /\ x.pc \in {"send", "sendErr"} /\ ~x.rx
        /\ Set(s, [x EXCEPT !.pc = After(x), !.hand = <<>>])

\* The receiving end was dropped, before or while the send waited: break.
SendFails(s) ==
    LET x == log[s]
    IN  /\ x.pc \in {"send", "sendErr"} /\ ~x.rx
        /\ Set(s, [x EXCEPT !.pc = "done", !.hand = <<>>])

\* The panel takes a message and makes an event of it.
Deliver(s) ==
    LET x == log[s]
    IN  /\ x.rx /\ x.chan # <<>>
        /\ Set(s, [x EXCEPT !.got = Append(@, Head(x.chan)), !.chan = Tail(@)])

\* The reader, or the panel, goes away: the receiving end and what is in the
\* channel are dropped.
Gone(s) ==
    /\ log[s].rx
    /\ Set(s, [log[s] EXCEPT !.rx = FALSE, !.chan = <<>>])

\* The node dies, and all its calls; the panel's stream breaks with an error.
NodeDies ==
    /\ call' = [c \in Calls |-> Idle]
    /\ stdin' = [i \in DOMAIN stdin |-> [stdin[i] EXCEPT !.by = None]]
    /\ log' = [s \in Streams |->
          IF log[s].pc = "closed" THEN log[s]
          ELSE [log[s] EXCEPT !.pc = "done", !.rx = FALSE, !.hand = <<>>, !.chan = <<>>,
                              !.got = IF log[s].rx /\ (log[s].pc # "done" \/ log[s].chan # <<>>)
                                      THEN Append(@, Err) ELSE @]]
    /\ UNCHANGED <<up, life, fs, begun, sent, mixed, printed>>

Forwarder(s) ==
    Next1(s) \/ NextFails(s) \/ NextEnds(s) \/ Send(s) \/ SendFails(s)

LogStep ==
    \/ \E s \in Streams : \/ \E follow \in BOOLEAN : Open(s, follow)
                          \/ Forwarder(s) \/ Deliver(s) \/ Gone(s)
    \/ NodeDies

\* What a command prints goes to the log too, one chunk a piece.
Console ==
    /\ FileStep
    /\ printed' = IF stdin # <<>> /\ stdin' = Tail(stdin) /\ up' THEN printed + Len(Output(Head(stdin)))
                  ELSE printed
    /\ UNCHANGED log

Next == Console \/ LogStep

Spec == LogInit /\ [][Next]_allvars

=============================================================================
