------------------------- MODULE NodeLogProperties -------------------------
(* What the readers of a log are told.                                     *)
EXTENDS NodeLogs, NodeFileProperties

StreamRecs == [pc : {"closed", "next", "send", "sendErr", "done"}, follow : BOOLEAN,
               life : Nat, pos : Nat, hand : Seq(Nat), chan : Seq(Nat), rx : BOOLEAN,
               got : Seq(Nat), atOpen : Nat, late : Nat]

NodeTypeOK ==
    /\ TypeOK
    /\ printed \in Nat
    /\ log \in [Streams -> StreamRecs]
    /\ \A s \in Streams : /\ log[s].pos <= printed /\ log[s].atOpen <= printed
                          /\ log[s].life <= life /\ Len(log[s].chan) <= Cap

Beginning(k) == [i \in 1 .. k |-> i]

\* What a reader was sent, what is in the channel and what the forwarder holds
\* are the beginning of the log, whole and in order, and an error comes last,
\* however slow the reader and however small the channel (forward_logs waits
\* for room).
LogInOrder == \A s \in Streams :
    LET told == log[s].got \o log[s].chan \o log[s].hand
    IN  log[s].rx =>
            \/ told = Beginning(log[s].pos)
            \/ told = Beginning(log[s].pos) \o <<Err>> /\ log[s].pc \in {"sendErr", "done"}

\* A stream that ends without an error has told everything that had been
\* printed when it was opened, and one that follows the container ends only
\* after the container has stopped.
EndIsWhole == \A s \in Streams :
    LET told == log[s].got \o log[s].chan
    IN  log[s].pc = "done" /\ log[s].rx =>
            \/ \E i \in DOMAIN told : told[i] = Err
            \/ /\ Len(told) >= log[s].atOpen
               /\ log[s].follow => ~up \/ life # log[s].life

\* A forwarder whose reader is gone reads at most one more chunk.
AtMostOneMore == \A s \in Streams : log[s].late <= 1

-----------------------------------------------------------------------------
(* What makes them inductive.                                              *)

\* The forwarder holds the chunk it read last, an error, or nothing.
InHand == \A s \in Streams :
    log[s].hand = IF log[s].pc = "send" THEN <<log[s].pos>>
                  ELSE IF log[s].pc = "sendErr" THEN <<Err>> ELSE <<>>

\* A stream that ended by itself and told no error has told all.
EndedWhole == \A s \in Streams :
    log[s].pc = "done" /\ log[s].rx =>
        \/ log[s].got \o log[s].chan = Beginning(log[s].pos) \o <<Err>>
        \/ /\ log[s].pos >= log[s].atOpen
           /\ log[s].follow => ~up \/ life # log[s].life

\* The chunk a forwarder reads after its reader is gone is its last.
LateIsLast == \A s \in Streams :
    \/ log[s].late = 0
    \/ log[s].late = 1 /\ ~log[s].rx /\ log[s].pc \in {"send", "done"}

LogInv == NodeTypeOK /\ InHand /\ LogInOrder /\ EndedWhole /\ LateIsLast

IInv == FileInv /\ LogInv

=============================================================================
