------------------------------- MODULE Sockets -------------------------------
(***************************************************************************)
(* libnet::TcpServer and libnet::TcpConn (net/socket.hpp), which block.  A  *)
(* client dials and writes messages; the server's reader thread accepts the *)
(* connection and reads it with LoopRead; a second thread of the server may *)
(* close the connection at any moment, and a third open another one, which  *)
(* may be given the same descriptor number.  A message is two units, and    *)
(* reads and writes take as many units as they like.                        *)
(***************************************************************************)
EXTENDS Integers, Sequences

CONSTANTS
  Messages, \* bound: messages the client writes
  Window,   \* units the connection holds
  MaxReads, \* bound: calls of LoopRead
  MaxDials, \* bound: calls of Dial
  MaxTheirs \* bound: units read from another connection

ASSUME SocketsAssumption ==
  Messages \in Nat /\ Window \in Nat \ {0} /\ MaxReads \in Nat /\ MaxDials \in Nat
  /\ MaxTheirs \in Nat

VARIABLES
  listener, \* m_listening, and the descriptor of the TcpServer
  backlog,  \* connections the kernel has completed and nobody accepted
  dialer,   \* the client's TcpConn: its descriptor and m_connected
  dials,    \* history: calls of Dial
  unsent,   \* units the client has yet to write
  net,      \* units under way to the server
  ended,    \* no more units will come, or be taken
  conn,     \* the server's TcpConn: m_sock and m_connected
  number,   \* what the descriptor number of that connection stands for
  reader,   \* where the reader thread is
  error,    \* the Error its last call threw, or NoError
  closer,   \* where the thread that closes is
  rbuf,     \* LoopRead's buffer
  handed,   \* history: messages the handler was given
  timed,    \* whether LoopRead was given a timeout
  reads,    \* history: calls of LoopRead
  dropped,  \* history: LoopRead left with units in its buffer
  crossed,  \* history: a recv began on a number that had been given away
  theirs    \* history: units that recv took from the number's new owner

peers == <<listener, backlog, dialer, dials, unsent>>
history == <<timed, reads, dropped, crossed, theirs>>
socketsVars == <<peers, net, ended, conn, number, reader, error, closer, rbuf, handed, history>>

NoError == "none"
(* What the client writes is a stream of units, of which a message is two.  *)
Message(m) == <<2 * m - 1, 2 * m>>
Stream == [i \in 1..(2 * Messages) |-> i]
(* n units of another connection.                                           *)
Foreign(n) == [i \in 1..n |-> 0]

(* The members of Error that a connection can meet.                         *)
Errors ==
  {"ESeriousError", "ENotConnected", "EConnectionRefused", "EConnectionReset", "EConnectionClosed",
   "EOperationWouldBlock", "EInvalidSocket", "ETimedOut"}

(* The errno of a failed call as an Error; what is not listed is serious.   *)
TranslateError(errno) ==
  CASE errno = "ECONNREFUSED" -> "EConnectionRefused"
    [] errno = "ECONNRESET" -> "EConnectionReset"
    [] errno = "EWOULDBLOCK" -> "EOperationWouldBlock"
    [] errno = "ENOTSOCK" -> "EInvalidSocket"
    [] OTHER -> "ESeriousError"

SocketsTypeOK ==
  /\ listener \in {"new", "listening", "closed"} /\ backlog \in 0..1
  /\ dialer \in [sock : {"none", "open", "closed"}, connected : BOOLEAN]
  /\ conn \in [sock : {"none", "open"}, connected : BOOLEAN]
  /\ number \in {"free", "mine", "other"}
  /\ reader \in {"accept", "idle", "check", "wait", "recv", "blocked", "handle", "left"}
  /\ closer \in {"start", "close", "forget", "mark", "done"}
  /\ error \in Errors \cup {NoError}
  /\ unsent \in Seq(Nat) /\ net \in Seq(Nat) /\ rbuf \in Seq(Nat) /\ handed \in Seq(Seq(Nat))
  /\ Len(net) <= Window /\ reads \in 0..MaxReads /\ dials \in 0..MaxDials
  /\ ended \in BOOLEAN /\ timed \in BOOLEAN /\ dropped \in BOOLEAN /\ crossed \in BOOLEAN
  /\ theirs \in 0..MaxTheirs

SocketsInit ==
  /\ listener = "new" /\ backlog = 0 /\ dials = 0
  /\ dialer = [sock |-> "none", connected |-> FALSE]
  /\ unsent = Stream /\ net = <<>> /\ ended = FALSE
  /\ conn = [sock |-> "none", connected |-> FALSE] /\ number = "free"
  /\ reader = "accept" /\ error = NoError /\ closer = "start"
  /\ rbuf = <<>> /\ handed = <<>> /\ timed = FALSE /\ reads = 0 /\ dropped = FALSE
  /\ crossed = FALSE /\ theirs = 0

-----------------------------------------------------------------------------
(* The client                                                               *)

Listen ==
  /\ listener = "new" /\ listener' = "listening"
  /\ UNCHANGED <<backlog, dialer, dials, unsent, net, ended, conn, number, reader, error,
                 closer, rbuf, handed, history>>

Listens == listener = "listening" \/ (listener = "closed" /\ reader = "accept")

(* Dial, also a second time after it was refused: the socket it made then   *)
(* is used again.  On a connected TcpConn it throws.                        *)
Dial ==
  /\ dials < MaxDials /\ dialer.sock # "closed"
  /\ dials' = dials + 1
  /\ IF ~dialer.connected /\ Listens
     THEN dialer' = [sock |-> "open", connected |-> TRUE] /\ backlog' = 1
     ELSE dialer' = [dialer EXCEPT !.sock = "open"] /\ UNCHANGED backlog
  /\ UNCHANGED <<listener, unsent, net, ended, conn, number, reader, error, closer, rbuf,
                 handed, history>>

(* Write returns what the kernel took; the caller goes on with the rest.    *)
Write ==
  /\ dialer.connected /\ ~ended
  /\ \E n \in 1..Len(unsent) :
       /\ Len(net) + n <= Window
       /\ net' = net \o SubSeq(unsent, 1, n) /\ unsent' = SubSeq(unsent, n + 1, Len(unsent))
  /\ UNCHANGED <<listener, backlog, dialer, dials, ended, conn, number, reader, error, closer,
                 rbuf, handed, history>>

ClientCloses ==
  /\ dialer.connected /\ unsent = <<>>
  /\ dialer' = [sock |-> "closed", connected |-> FALSE] /\ ended' = TRUE
  /\ UNCHANGED <<listener, backlog, dials, unsent, net, conn, number, reader, error, closer,
                 rbuf, handed, history>>

-----------------------------------------------------------------------------
(* The reader thread                                                        *)

Accept ==
  /\ reader = "accept" /\ backlog = 1
  /\ backlog' = 0
  /\ conn' = [sock |-> "open", connected |-> TRUE] /\ number' = "mine"
  /\ reader' = "idle"
  /\ UNCHANGED <<listener, dialer, dials, unsent, net, ended, error, closer, rbuf, handed, history>>

(* TcpServer::Close.  An Accept that blocks on the socket stays blocked, and *)
(* keeps it listening.                                                      *)
ServerCloses ==
  /\ listener = "listening"
  /\ listener' = "closed"
  /\ UNCHANGED <<backlog, dialer, dials, unsent, net, ended, conn, number, reader, error, closer,
                 rbuf, handed, history>>

(* LoopRead is called, again after a timeout.                               *)
LoopRead ==
  /\ reader = "idle" /\ reads < MaxReads
  /\ timed' \in BOOLEAN
  /\ reader' = "check" /\ reads' = reads + 1 /\ rbuf' = <<>> /\ error' = NoError
  /\ UNCHANGED <<peers, net, ended, conn, number, closer, handed, dropped, crossed, theirs>>

(* LoopRead is left; its buffer goes with it.                               *)
Leaves(e) ==
  /\ reader' = IF e = "ETimedOut" THEN "idle" ELSE "left"
  /\ error' = e
  /\ dropped' = (dropped \/ rbuf # <<>>)
  /\ UNCHANGED <<peers, net, ended, conn, number, closer, rbuf, handed, timed, reads, crossed,
                 theirs>>

Stays == UNCHANGED <<peers, net, ended, conn, number, error, closer, rbuf, handed, timed, reads,
                     dropped, theirs>>

(* Read: the test of m_connected.                                           *)
CheckConnected ==
  /\ reader = "check"
  /\ \/ ~conn.connected /\ Leaves("ENotConnected")
     \/ conn.connected /\ reader' = (IF timed THEN "wait" ELSE "recv") /\ Stays /\ UNCHANGED crossed

(* setDealTimeout: select says that the socket is ready, or time is up.     *)
(* What select is given may already be another's descriptor, or none.       *)
Select ==
  /\ reader = "wait"
  /\ \/ (number # "mine" \/ net # <<>> \/ ended) /\ reader' = "recv" /\ Stays /\ UNCHANGED crossed
     \/ (number = "other" \/ (number = "mine" /\ net = <<>> /\ ~ended)) /\ Leaves("ETimedOut")

(* recv on what m_sock holds now.                                           *)
Recv ==
  /\ reader = "recv"
  /\ \/ (conn.sock = "none" \/ number = "free") /\ Leaves(TranslateError("EBADF"))
     \/ /\ conn.sock # "none" /\ number # "free"
        /\ reader' = "blocked" /\ crossed' = (crossed \/ number = "other")
        /\ Stays

(* The recv that runs holds the connection, not the number.                 *)
Received ==
  /\ reader = "blocked" /\ ~crossed
  /\ \/ \E n \in 1..Len(net) :
          /\ rbuf' = rbuf \o SubSeq(net, 1, n) /\ net' = SubSeq(net, n + 1, Len(net))
          /\ reader' = "handle"
          /\ UNCHANGED <<peers, ended, conn, number, error, closer, handed, history>>
     \/ net = <<>> /\ ended /\ Leaves("EConnectionClosed")

(* A recv on a number that is another connection's takes what that one was  *)
(* sent, or sees it end, if ever it does.                                   *)
ReceivedTheirs ==
  /\ reader = "blocked" /\ crossed
  /\ \/ \E n \in 1..(MaxTheirs - theirs) :
          /\ rbuf' = rbuf \o Foreign(n) /\ theirs' = theirs + n
          /\ reader' = "handle"
          /\ UNCHANGED <<peers, net, ended, conn, number, error, closer, handed, timed, reads,
                         dropped, crossed>>
     \/ Leaves("EConnectionClosed")

(* The handler takes a message off the front, or asks for more.             *)
Takes_All(n) == n
Takes(n) == 2
Handle ==
  /\ reader = "handle"
  /\ \/ /\ Len(rbuf) >= 2
        /\ handed' = Append(handed, SubSeq(rbuf, 1, 2))
        /\ rbuf' = SubSeq(rbuf, Takes(Len(rbuf)) + 1, Len(rbuf))
        /\ UNCHANGED reader
     \/ /\ Len(rbuf) < 2 /\ reader' = "check"
        /\ UNCHANGED <<rbuf, handed>>
  /\ UNCHANGED <<peers, net, ended, conn, number, error, closer, history>>

-----------------------------------------------------------------------------
(* Another thread closes the connection                                     *)

EndsStream_No == ended
EndsStream == TRUE

(* shutdown, which ends a recv that blocks.                                 *)
Shutdown ==
  /\ closer = "start" /\ conn.connected
  /\ closer' = "close" /\ ended' = EndsStream
  /\ UNCHANGED <<peers, net, conn, number, reader, error, rbuf, handed, history>>

CloseNumber ==
  /\ closer = "close" /\ closer' = "forget" /\ number' = "free"
  /\ UNCHANGED <<peers, net, ended, conn, reader, error, rbuf, handed, history>>

ForgetNumber ==
  /\ closer = "forget" /\ closer' = "mark" /\ conn' = [conn EXCEPT !.sock = "none"]
  /\ UNCHANGED <<peers, net, ended, number, reader, error, rbuf, handed, history>>

MarkClosed ==
  /\ closer = "mark" /\ closer' = "done" /\ conn' = [conn EXCEPT !.connected = FALSE]
  /\ UNCHANGED <<peers, net, ended, number, reader, error, rbuf, handed, history>>

OtherOpens ==
  /\ number = "free" /\ closer \in {"forget", "mark", "done"} /\ number' = "other"
  /\ UNCHANGED <<peers, net, ended, conn, reader, error, closer, rbuf, handed, history>>

-----------------------------------------------------------------------------
Reader == Accept \/ LoopRead \/ CheckConnected \/ Select \/ Recv \/ Received \/ Handle
Closer == CloseNumber \/ ForgetNumber \/ MarkClosed
SocketsNext == Listen \/ Dial \/ Write \/ ClientCloses \/ ServerCloses \/ Reader \/ ReceivedTheirs
        \/ Shutdown \/ Closer \/ OtherOpens

SocketsSpec == SocketsInit /\ [][SocketsNext]_socketsVars
SocketsFairSpec == SocketsSpec /\ WF_socketsVars(Reader) /\ WF_socketsVars(Closer)

-----------------------------------------------------------------------------
(* INVARIANT.  The handler of LoopRead is given the messages of the peer,   *)
(* whole, in order and without a gap, however the stream is cut and at      *)
(* whichever step another thread closes it.  Two exceptions: LoopRead was   *)
(* left by a timeout with part of a message in its buffer; and a recv took  *)
(* bytes of another connection, which was given the number between the      *)
(* close and the recv (socket.hpp 478, 742).                                *)
MessagesInOrder ==
  ~dropped /\ theirs = 0 => \A i \in DOMAIN handed : handed[i] = Message(i)

(* PROPERTY.  A reader on a connection that has ended, or that another      *)
(* thread closes, gets out of LoopRead, even out of a recv that blocks.     *)
(* Only a recv that began on a number given to another connection does not. *)
ReaderLeaves ==
  reader \in {"check", "wait", "recv", "blocked", "handle"} /\ (ended \/ closer # "start")
    ~> reader \in {"left", "idle"} \/ crossed
=============================================================================
