------------------------------ MODULE Transport ------------------------------
(***************************************************************************)
(* transport.Conn (core/transport): readLoop and writeLoop between a UDP   *)
(* socket and the two packet channels, and Close.                          *)
(*                                                                         *)
(* Packets are numbered in the order they are handed to the socket or to   *)
(* Send; what travels for one is the subject of Obfuscation.  The socket's *)
(* read deadline makes a blocked read return, so a read is one step.       *)
(***************************************************************************)
EXTENDS Naturals, Sequences, FiniteSets

CONSTANTS MaxQueueDepth,    \* capacity of recv and of send
          Closers,          \* goroutines that call Close
          Nobody,
          MaxIn, MaxOut     \* bounds: datagrams that arrive, packets sent

ASSUME TransportAssumption == /\ MaxQueueDepth \in Nat \ {0}
                              /\ Nobody \notin Closers
                              /\ {MaxIn, MaxOut} \subseteq Nat

VARIABLES arrived,      \* datagrams the socket has received
          socket,       \* those of them not read yet
          recv, send,   \* the channels
          taken,        \* packets the owner has received from Recv()
          queued,       \* packets the owner has passed to Send
          written,      \* packets written to the socket
          inDrops, outDrops,
          refused,      \* packets whose write failed: no statistic counts them
          reader, writer,
          hand,         \* the packet writeLoop is writing, or 0
          ctxDone, open,
          closing,      \* the caller that runs once.Do
          closer        \* the callers of Close

input  == <<arrived, socket, recv, taken, inDrops>>
output == <<send, queued, written, outDrops, refused, hand>>
ends   == <<ctxDone, open, closing, closer>>
connVars == <<input, output, reader, writer, ends>>

ConnInit == /\ arrived = 0 /\ socket = <<>> /\ recv = <<>> /\ taken = <<>> /\ inDrops = 0
            /\ send = <<>> /\ queued = 0 /\ written = <<>> /\ outDrops = 0 /\ refused = 0
            /\ reader = "none" /\ writer = "none" /\ hand = 0
            /\ ctxDone = FALSE /\ open = FALSE /\ closing = Nobody
            /\ closer = [c \in Closers |-> "idle"]

(* Listen or Dial, when the address resolves and the socket can be had:    *)
(* the goroutines run before the owner has the connection.                 *)
newConn == /\ reader = "none"
           /\ open' = TRUE
           /\ reader' = "check" /\ writer' = "select"
           /\ UNCHANGED <<input, output, ctxDone, closing, closer>>

Owned == reader # "none"
-----------------------------------------------------------------------------
Arrive == /\ arrived < MaxIn /\ open
          /\ arrived' = arrived + 1
          /\ socket' = Append(socket, arrived + 1)
          /\ UNCHANGED <<recv, taken, inDrops, output, reader, writer, ends>>

ReadCheck == /\ reader = "check"
             /\ reader' = IF ctxDone THEN "ended" ELSE "read"
             /\ UNCHANGED <<input, output, writer, ends>>

(* A full channel drops the packet.  So is a datagram dropped that         *)
(* deobfuscate refuses, whether or not there is room.                      *)
ReadPacket == /\ reader = "read"
              /\ open /\ socket # <<>>
              /\ socket' = Tail(socket)
              /\ \/ /\ Len(recv) < MaxQueueDepth
                    /\ recv' = Append(recv, Head(socket))
                    /\ UNCHANGED inDrops
                 \/ /\ inDrops' = inDrops + 1
                    /\ UNCHANGED recv
              /\ reader' = "check"
              /\ UNCHANGED <<arrived, taken, output, writer, ends>>

ReadTimesOut == /\ reader = "read" /\ open /\ socket = <<>>
                /\ reader' = "check"
                /\ UNCHANGED <<input, output, writer, ends>>

(* Any other error ends the goroutine: that of a closed socket, or an ICMP *)
(* error that a connected socket reports.  recv is not closed.             *)
ReadFails == /\ reader = "read"
             /\ reader' = "ended"
             /\ UNCHANGED <<input, output, writer, ends>>

Take == /\ recv # <<>>
        /\ taken' = Append(taken, Head(recv))
        /\ recv' = Tail(recv)
        /\ UNCHANGED <<arrived, socket, inDrops, output, reader, writer, ends>>
-----------------------------------------------------------------------------
(* A mutant: a full channel makes Send drop without counting.              *)
SendUncounted == /\ Owned /\ queued < MaxOut
                 /\ queued' = queued + 1
                 /\ send' = IF Len(send) < MaxQueueDepth THEN Append(send, queued + 1) ELSE send
                 /\ UNCHANGED <<input, written, outDrops, refused, hand, reader, writer, ends>>

Send == /\ Owned /\ queued < MaxOut
        /\ queued' = queued + 1
        /\ \/ /\ Len(send) < MaxQueueDepth
              /\ send' = Append(send, queued + 1)
              /\ UNCHANGED outDrops
           \/ /\ Len(send) = MaxQueueDepth
              /\ outDrops' = outDrops + 1
              /\ UNCHANGED send
        /\ UNCHANGED <<input, written, refused, hand, reader, writer, ends>>

(* A mutant: the newest packet is written first.                           *)
WriterTakesNewest == /\ writer = "select" /\ send # <<>>
                     /\ writer' = "write"
                     /\ hand' = send[Len(send)]
                     /\ send' = SubSeq(send, 1, Len(send) - 1)
                     /\ UNCHANGED <<input, queued, written, outDrops, refused, reader, ends>>

(* select: when both are ready, either may be chosen.                      *)
WriterTakes == /\ writer = "select" /\ send # <<>>
               /\ writer' = "write"
               /\ hand' = Head(send)
               /\ send' = Tail(send)
               /\ UNCHANGED <<input, queued, written, outDrops, refused, reader, ends>>

(* A mutant: the writer looks at its context only with a packet in hand.   *)
WriterEndsOnPacket == /\ writer = "select" /\ ctxDone /\ send # <<>>
                      /\ writer' = "ended"
                      /\ UNCHANGED <<input, output, reader, ends>>

WriterEnds == /\ writer = "select" /\ ctxDone
              /\ writer' = "ended"
              /\ UNCHANGED <<input, output, reader, ends>>

(* A write fails on a closed socket, and may fail on an open one: the      *)
(* packet is gone.                                                         *)
Write == /\ writer = "write"
         /\ \/ open /\ written' = Append(written, hand) /\ UNCHANGED refused
            \/ refused' = refused + 1 /\ UNCHANGED written
         /\ hand' = 0
         /\ writer' = "select"
         /\ UNCHANGED <<input, send, queued, outDrops, reader, ends>>
-----------------------------------------------------------------------------
(* Close: the first caller runs the body of once.Do, the others wait.      *)
CloseCalled(c) == /\ Owned /\ closer[c] = "idle"
                  /\ \/ closing = Nobody /\ closing' = c /\ closer' = [closer EXCEPT ![c] = "cancel"]
                     \/ closing # Nobody /\ closer' = [closer EXCEPT ![c] = "block"] /\ UNCHANGED closing
                  /\ UNCHANGED <<input, output, reader, writer, ctxDone, open>>

CloseCancels(c) == /\ closer[c] = "cancel"
                   /\ ctxDone' = TRUE
                   /\ closer' = [closer EXCEPT ![c] = "close"]
                   /\ UNCHANGED <<input, output, reader, writer, open, closing>>

CloseSocket(c) == /\ closer[c] = "close"
                  /\ open' = FALSE
                  /\ closer' = [closer EXCEPT ![c] = "wait"]
                  /\ UNCHANGED <<input, output, reader, writer, ctxDone, closing>>

CloseWaits(c) == /\ closer[c] = "wait" /\ reader = "ended" /\ writer = "ended"
                 /\ closer' = [closer EXCEPT ![c] = "done"]
                 /\ UNCHANGED <<input, output, reader, writer, ctxDone, open, closing>>

CloseReturns(c) == /\ closer[c] = "block" /\ closer[closing] = "done"
                   /\ closer' = [closer EXCEPT ![c] = "done"]
                   /\ UNCHANGED <<input, output, reader, writer, ctxDone, open, closing>>
-----------------------------------------------------------------------------
Reading == ReadCheck \/ ReadPacket \/ ReadTimesOut \/ ReadFails
Writing == WriterTakes \/ Write
Closing(c) == CloseCancels(c) \/ CloseSocket(c) \/ CloseWaits(c) \/ CloseReturns(c)

ConnNext == \/ newConn \/ Arrive \/ Reading \/ Take
            \/ Send \/ Writing \/ WriterEnds
            \/ \E c \in Closers : CloseCalled(c) \/ Closing(c)

ConnSpec == ConnInit /\ [][ConnNext]_connVars

ConnFairness == /\ WF_connVars(ReadCheck) /\ WF_connVars(ReadPacket \/ ReadTimesOut \/ (~open /\ ReadFails))
                /\ WF_connVars(Take) /\ WF_connVars(Writing) /\ SF_connVars(WriterEnds)
                /\ \A c \in Closers : WF_connVars(Closing(c))
ConnFairSpec == ConnSpec /\ ConnFairness
-----------------------------------------------------------------------------
(* What the connection's counters say.                                     *)
Stats == [packetsOut |-> Len(written), drops |-> inDrops + outDrops]

Increasing(s) == \A i, j \in 1..Len(s) : i < j => s[i] < s[j]

(* Whatever is dropped under load, packets leave both channels in the      *)
(* order they came, and none twice.                                        *)
OrderKept == Increasing(taken \o recv \o socket) /\ Increasing(written)

(* Every datagram is in the socket, in the channel, received or counted    *)
(* as a drop, and every packet passed to Send is in the channel, in hand,  *)
(* counted as sent or as a drop, but for those the socket refuses: the     *)
(* statistics hide no loss of the queues.                                  *)
DropsAreCounted ==
    arrived + queued = Len(socket \o recv \o taken \o send) + (IF hand # 0 THEN 1 ELSE 0)
                       + Stats.packetsOut + Stats.drops + refused

(* A Close that has returned, to whichever caller, is over: the socket is  *)
(* closed, both goroutines have ended and no packet is in hand.            *)
CloseIsFinal == \A c \in Closers : closer[c] = "done" => ~open /\ reader = "ended" /\ writer = "ended" /\ hand = 0

(* Nobody waits in vain: who waits for the goroutines has told both to     *)
(* end, and who waits for once.Do waits for another caller, who is on his  *)
(* way through Close and does not wait for a third.                        *)
CloseWaitsForEnding ==
    \A c \in Closers : /\ closer[c] = "wait" => ctxDone /\ ~open /\ Owned
                       /\ closer[c] = "block" => /\ closing \in Closers \ {c}
                                                 /\ closer[closing] \in {"cancel", "close", "wait", "done"}

(* What is over stays over: after a Close no step reads, writes or counts  *)
(* another datagram, and none opens the socket or starts a goroutine.      *)
NothingAfterClose ==
    [][(\E c \in Closers : closer[c] = "done")
           => UNCHANGED <<arrived, socket, written, refused, inDrops, open, reader, writer>>]_connVars

(* Close returns: no goroutine it waits for stays blocked.                 *)
CloseTerminates == \A c \in Closers : closer[c] # "idle" ~> closer[c] = "done"
=============================================================================
