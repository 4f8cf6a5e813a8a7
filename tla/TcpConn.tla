------------------------------- MODULE TcpConn -------------------------------
(***************************************************************************)
(* libtcp::Conn (net/tcp.hpp): one accepted connection, served by the       *)
(* thread that runs Context::Loop, while another thread may call Send and   *)
(* Close on it.  The class has no lock of its own; only single operations   *)
(* of its two byte buffers are atomic.                                      *)
(*                                                                          *)
(* Bytes are numbered in the order in which they were written, so that a    *)
(* lost, doubled or displaced one shows.  A message is Parts bytes; the     *)
(* user's message handler takes one whole message or asks for more.  Left   *)
(* out: EINTR, a handler that claims more than it was given (Remove clamps  *)
(* it), and EPOLLOUT, for which no code ever asks (ModFd has no caller).    *)
(***************************************************************************)
EXTENDS Integers, Sequences, FiniteSets

CONSTANTS
  Loop,      \* the thread that runs Context::Loop
  User,      \* another thread that holds the connection
  Parts,     \* bytes to a message
  Messages,  \* bound: messages the peer sends
  Calls,     \* bound: calls of Send and Close by the user's thread
  RcvBuf,    \* size of HandleRead's buffer
  SndBuf,    \* bytes the kernel holds until the peer reads them
  OnMessage  \* what the message handler does with a message

Threads == {Loop, User}

ASSUME ConnAssumption ==
  /\ Loop # User
  /\ Parts \in Nat \ {0} /\ Messages \in Nat /\ Calls \in Nat
  /\ RcvBuf \in Nat \ {0} /\ SndBuf \in Nat \ {0}
  /\ OnMessage # {} /\ OnMessage \subseteq {"take", "reply", "close", "reject"}

VARIABLES
  th,        \* where each thread is, where its call returns, what send returned
  closed,    \* closed_
  open,      \* whether fd_ is an open descriptor
  table,     \* whether the Context has a handler for fd_
  rbuf,
  outbox,
  peer,      \* "open", "fin" (it has shut down) or "rst"
  inq,       \* bytes that wait in the kernel to be received
  wire,      \* history: bytes the kernel has accepted
  acked,     \* how many of them the peer has read
  arrived,   \* history: how many bytes the peer has sent
  delivered, \* history: the messages the handler has taken
  written,   \* history: bytes passed to Send
  calls,     \* calls the user's thread has made
  notified,  \* history: calls of on_close_
  overlap,   \* history: calls two threads have been inside of at a time
  local      \* history: this side has decided to close

net == <<peer, inq, acked, arrived>>
hist == <<wire, delivered, written, calls, notified>>
vars == <<th, closed, open, table, rbuf, outbox, net, hist, overlap, local>>

Places == {"idle", "accepted", "start", "recv", "dispatch", "send", "append",
           "enter", "write", "remove", "close", "shut", "delfd", "closefd", "finish"}

TypeOK ==
  /\ th \in [Threads -> [at : Places, back : {"idle", "start", "dispatch"}, n : Nat]]
  /\ closed \in BOOLEAN /\ open \in BOOLEAN /\ table \in BOOLEAN
  /\ {rbuf, outbox, inq, wire, written} \subseteq Seq(Nat \ {0})
  /\ delivered \in Seq(Seq(Nat))
  /\ peer \in {"open", "fin", "rst"}
  /\ acked \in 0..Len(wire) /\ arrived \in Nat
  /\ calls \in 0..Calls /\ notified \in Nat
  /\ overlap \subseteq {"send", "close", "start"} /\ local \in BOOLEAN

(* HandleAccept has made the connection and calls on_accept_.               *)
Init ==
  /\ th = [t \in Threads |-> [at |-> IF t = Loop THEN "accepted" ELSE "idle",
                              back |-> "idle", n |-> 0]]
  /\ closed = FALSE /\ open = TRUE /\ table = FALSE
  /\ rbuf = <<>> /\ outbox = <<>>
  /\ peer = "open" /\ inq = <<>> /\ acked = 0 /\ arrived = 0
  /\ wire = <<>> /\ delivered = <<>> /\ written = <<>>
  /\ calls = 0 /\ notified = 0 /\ overlap = {} /\ local = FALSE

At(t, place) == th[t].at = place
Goto(t, place) == th' = [th EXCEPT ![t].at = place]
Call(t, place, back) == th' = [th EXCEPT ![t].at = place, ![t].back = back]
Return(t) == th' = [th EXCEPT ![t].at = th[t].back, ![t].back = "idle"]

-----------------------------------------------------------------------------
(* Send and HandleWrite                                                     *)

Block == [i \in 1..Parts |-> Len(written) + i]

(* Send: nothing is written on a closed connection, but it may be closed    *)
(* between the test and the write.                                          *)
SendTest(t) ==
  /\ At(t, "send")
  /\ IF closed \/ ~open THEN Return(t) ELSE Goto(t, "append")
  /\ UNCHANGED <<closed, open, table, rbuf, outbox, net, hist>>

SendWrite(t) ==
  /\ At(t, "append")
  /\ outbox' = outbox \o Block
  /\ written' = written \o Block
  /\ Goto(t, "enter")
  /\ UNCHANGED <<closed, open, table, rbuf, net, wire, delivered, calls, notified>>

HandleWrite(t) ==
  /\ At(t, "enter")
  /\ IF closed \/ ~open THEN Return(t) ELSE Goto(t, "write")
  /\ UNCHANGED <<closed, open, table, rbuf, outbox, net, hist>>

Room == SndBuf - (Len(wire) - acked)
Taken == IF Len(outbox) < Room THEN Len(outbox) ELSE Room

(* One round of the loop: done; the kernel takes what it has room for; it   *)
(* takes nothing now (EAGAIN); it fails.                                    *)
WriteSome(t) ==
  /\ At(t, "write")
  /\ \/ /\ outbox = <<>>
        /\ Return(t) /\ UNCHANGED wire
     \/ /\ outbox # <<>> /\ open /\ peer # "rst" /\ Room > 0
        /\ wire' = wire \o SubSeq(outbox, 1, Taken)
        /\ th' = [th EXCEPT ![t].at = "remove", ![t].n = Taken]
     \/ /\ outbox # <<>> /\ open /\ peer # "rst" /\ Room = 0
        /\ Return(t) /\ UNCHANGED wire
     \/ /\ outbox # <<>> /\ (~open \/ peer = "rst")
        /\ Goto(t, "close") /\ UNCHANGED wire
  /\ UNCHANGED <<closed, open, table, rbuf, outbox, net, delivered, written,
                 calls, notified>>

Sent_All(n) == <<>>
Sent(n) == SubSeq(outbox, n + 1, Len(outbox))
WriteRemove(t) ==
  /\ At(t, "remove")
  /\ outbox' = Sent(th[t].n)
  /\ th' = [th EXCEPT ![t].at = "write", ![t].n = 0]
  /\ UNCHANGED <<closed, open, table, rbuf, net, hist>>

-----------------------------------------------------------------------------
(* close_now, with its test and its four effects as steps of their own      *)

AlreadyClosed == closed
CloseTest(t) ==
  /\ At(t, "close")
  /\ IF AlreadyClosed THEN Return(t) ELSE Goto(t, "shut")
  /\ UNCHANGED <<closed, open, table, rbuf, outbox, net, hist>>

CloseShut(t) ==
  /\ At(t, "shut")
  /\ closed' = TRUE
  /\ IF open THEN Goto(t, "delfd") ELSE Goto(t, "finish")
  /\ UNCHANGED <<open, table, rbuf, outbox, net, hist>>

DelFd_Skipped == UNCHANGED table
DelFd == table' = FALSE
CloseDelFd(t) ==
  /\ At(t, "delfd")
  /\ DelFd
  /\ Goto(t, "closefd")
  /\ UNCHANGED <<closed, open, rbuf, outbox, net, hist>>

CloseFd(t) ==
  /\ At(t, "closefd")
  /\ open' = FALSE
  /\ Goto(t, "finish")
  /\ UNCHANGED <<closed, table, rbuf, outbox, net, hist>>

CloseFinish(t) ==
  /\ At(t, "finish")
  /\ outbox' = <<>>
  /\ notified' = notified + 1
  /\ Return(t)
  /\ UNCHANGED <<closed, open, table, rbuf, net, wire, delivered, written, calls>>

-----------------------------------------------------------------------------
(* The loop's thread                                                        *)

(* on_accept_ may send or close, or leave the connection alone.             *)
OnAccept ==
  /\ At(Loop, "accepted")
  /\ \/ Goto(Loop, "start")
     \/ "reply" \in OnMessage /\ Call(Loop, "send", "start")
     \/ "close" \in OnMessage /\ Call(Loop, "close", "start")
  /\ UNCHANGED <<closed, open, table, rbuf, outbox, net, hist>>

(* Start: AddFd refuses a closed descriptor, and Start does not look.       *)
Start ==
  /\ At(Loop, "start")
  /\ table' = open
  /\ Goto(Loop, "idle")
  /\ UNCHANGED <<closed, open, rbuf, outbox, net, hist>>

(* Loop has found the handler of a ready descriptor and calls HandleEvent.  *)
HandleEvent ==
  /\ At(Loop, "idle") /\ table /\ open
  /\ \/ peer = "rst" /\ Call(Loop, "close", "idle")
     \/ peer # "rst" /\ (inq # <<>> \/ peer = "fin") /\ Call(Loop, "recv", "idle")
  /\ UNCHANGED <<closed, open, table, rbuf, outbox, net, hist>>

EndOfStream_Early == peer # "open"
EndOfStream == inq = <<>> /\ peer # "open"

(* One round of HandleRead: bytes, the end of the stream or an error (also  *)
(* that the descriptor is gone), or nothing more for now.                   *)
HandleRead ==
  /\ At(Loop, "recv")
  /\ \/ /\ open
        /\ \E n \in 1..RcvBuf :
             /\ n <= Len(inq)
             /\ rbuf' = rbuf \o SubSeq(inq, 1, n)
             /\ inq' = SubSeq(inq, n + 1, Len(inq))
        /\ Goto(Loop, "dispatch")
     \/ /\ ~open \/ EndOfStream
        /\ Call(Loop, "close", "idle") /\ UNCHANGED <<rbuf, inq>>
     \/ /\ open /\ inq = <<>> /\ ~EndOfStream
        /\ Goto(Loop, "idle") /\ UNCHANGED <<rbuf, inq>>
  /\ UNCHANGED <<closed, open, table, outbox, peer, acked, arrived, hist>>

Consumed_OneLess == SubSeq(rbuf, Parts, Len(rbuf))
Consumed == SubSeq(rbuf, Parts + 1, Len(rbuf))

(* One round of DispatchMessages.  Only this thread uses rbuf_, so what the *)
(* handler claims is removed here, before the calls it makes.  A handler    *)
(* that refuses the message has it left in rbuf_ and ends the connection.   *)
DispatchMessages ==
  /\ At(Loop, "dispatch")
  /\ \/ /\ Len(rbuf) < Parts
        /\ Goto(Loop, "recv") /\ UNCHANGED <<rbuf, delivered>>
     \/ /\ Len(rbuf) >= Parts
        /\ \E does \in OnMessage :
             \/ /\ does = "reject"
                /\ Call(Loop, "close", "idle") /\ UNCHANGED <<rbuf, delivered>>
             \/ /\ does # "reject"
                /\ delivered' = Append(delivered, SubSeq(rbuf, 1, Parts))
                /\ rbuf' = Consumed
                /\ CASE does = "take" -> UNCHANGED th
                     [] does = "reply" -> Call(Loop, "send", "dispatch")
                     [] does = "close" -> Call(Loop, "close", "dispatch")
  /\ UNCHANGED <<closed, open, table, outbox, net, wire, written, calls, notified>>

-----------------------------------------------------------------------------
(* The user's thread                                                        *)

UserSend ==
  /\ At(User, "idle") /\ calls < Calls
  /\ calls' = calls + 1
  /\ Call(User, "send", "idle")
  /\ UNCHANGED <<closed, open, table, rbuf, outbox, net, wire, delivered, written,
                 notified>>

UserClose ==
  /\ At(User, "idle") /\ calls < Calls
  /\ calls' = calls + 1
  /\ Call(User, "close", "idle")
  /\ UNCHANGED <<closed, open, table, rbuf, outbox, net, wire, delivered, written,
                 notified>>

-----------------------------------------------------------------------------
(* The peer and the kernel                                                  *)

(* A message; HandleRead gets it in pieces.                                 *)
PeerSend ==
  /\ open /\ peer = "open" /\ arrived < Parts * Messages
  /\ arrived' = arrived + Parts
  /\ inq' = inq \o [i \in 1..Parts |-> arrived + i]
  /\ UNCHANGED <<th, closed, open, table, rbuf, outbox, peer, acked, hist>>

PeerRead ==
  /\ peer # "rst" /\ acked < Len(wire)
  /\ acked' = Len(wire)
  /\ UNCHANGED <<th, closed, open, table, rbuf, outbox, peer, inq, arrived, hist>>

(* An orderly end, or a reset, which may also follow it.                    *)
PeerEnds ==
  /\ open /\ peer # "rst"
  /\ \/ peer = "open" /\ peer' = "fin"
     \/ peer' = "rst"
  /\ UNCHANGED <<th, closed, open, table, rbuf, outbox, inq, acked, arrived, hist>>

-----------------------------------------------------------------------------
CallStep(t) ==
  \/ SendTest(t) \/ SendWrite(t) \/ HandleWrite(t) \/ WriteSome(t) \/ WriteRemove(t)
  \/ CloseTest(t) \/ CloseShut(t) \/ CloseDelFd(t) \/ CloseFd(t) \/ CloseFinish(t)
LoopStep == OnAccept \/ Start \/ HandleEvent \/ HandleRead \/ DispatchMessages
UserStep == UserSend \/ UserClose
PeerStep == PeerSend \/ PeerRead \/ PeerEnds

Step ==
  LoopStep \/ UserStep \/ PeerStep \/ \E t \in Threads : CallStep(t)

(* Which calls two threads are inside of.                                   *)
Sending == {t \in Threads : th[t].at \in {"enter", "write", "remove"}}
Closing == {t \in Threads : th[t].at \in {"close", "shut", "delfd", "closefd", "finish"}}
Overlaps ==
  {c \in {"send", "close", "start"} :
     CASE c = "send" -> Sending = Threads
       [] c = "close" -> Closing = Threads
       [] c = "start" -> At(Loop, "start") /\ User \in Closing}

(* UserClose, or a callback that closes or refuses a message.               *)
ClosesHere ==
  \E at \in {<<Loop, "accepted">>, <<Loop, "dispatch">>, <<User, "idle">>} :
    At(at[1], at[2]) /\ At(at[1], "close")'

Next ==
  /\ Step
  /\ overlap' = overlap \cup Overlaps' /\ local' = (local \/ ClosesHere)

Spec == Init /\ [][Next]_vars

(* Fairness: each thread goes on with the call it is in, the loop serves    *)
(* what is ready, the peer reads what it is sent.  Nobody is obliged to     *)
(* send or to close.                                                        *)
FairSpec ==
  /\ Spec
  /\ WF_vars((LoopStep \/ CallStep(Loop)) /\ Next)
  /\ WF_vars(CallStep(User) /\ Next)
  /\ WF_vars(PeerRead /\ Next)

-----------------------------------------------------------------------------
(* Properties                                                               *)

Settled == th[Loop].at = "idle" /\ th[User].at = "idle"

(* The handler gets the peer's messages whole, in order and once, whatever  *)
(* the pieces they arrive in, and also while it replies, while the other    *)
(* thread calls, and when the connection is closed under the loop           *)
(* (263-298).                                                               *)
MessagesWhole ==
  \A i \in 1..Len(delivered) :
    delivered[i] = [j \in 1..Parts |-> (i - 1) * Parts + j]

(* The peer gets what was passed to Send, in order, with no gap and nothing *)
(* twice; on an open connection what it lacks is in the outbox.  Unless two *)
(* threads were inside Send at once: between send and Remove the bytes are  *)
(* in both places (242-247, 300-316).                                       *)
StreamIntact ==
  "send" \notin overlap =>
    /\ wire = SubSeq(written, 1, Len(wire))
    /\ ~closed /\ (\A t \in Threads : ~At(t, "remove")) => wire \o outbox = written

(* A closed connection has left the Context's table, which would keep it    *)
(* alive for ever and answer for the next owner of its descriptor.  Unless  *)
(* it was closed while Start ran, or by two threads (234-240, 318-330).     *)
Released ==
  closed /\ Settled /\ overlap \cap {"start", "close"} = {} =>
    ~table /\ ~open /\ notified = 1

(* The end of the peer is noticed: the connection is closed, and when the   *)
(* end was orderly every message sent before it has gone to the handler     *)
(* first (263-298).  Unless this side closed before, or the peer reset the  *)
(* connection: then it is closed with what waits unread (253-255).          *)
EndIsNoticed ==
  peer # "open" ~>
    closed /\ (local \/ peer = "rst" \/ Len(delivered) * Parts = arrived)
=============================================================================
