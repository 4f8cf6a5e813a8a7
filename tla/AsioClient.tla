----------------------------- MODULE AsioClient -----------------------------
(***************************************************************************)
(* libtcp::Client and libtcp::Conn on asio (net/asio.hpp).  One thread runs *)
(* the io_context: posted handlers in order, completions of timers,         *)
(* connects, reads and writes when they come.  The application calls the    *)
(* client between two handlers, or in a callback.  The fields of the client *)
(* are one record, on which each public call is an operator; a Conn is a    *)
(* record as well.  A message is a number, written whole or not at all.     *)
(* Left out: what is received, except that it may make the handler end the  *)
(* connection; Stop of the Context; data races of a client used by another  *)
(* thread.                                                                  *)
(***************************************************************************)
EXTENDS Naturals, Sequences

CONSTANTS
  AppCalls,   \* the public calls the application makes
  MaxCalls,   \* bound: calls of the application
  MaxConns,   \* bound: connections established
  MaxSends,   \* bound: messages sent
  OnCloseDoes \* what OnClose may do: "nothing", "reconnect", "close"

ASSUME AsioAssumption ==
  /\ AppCalls \subseteq {"connect", "reconnect", "close"}
  /\ MaxCalls \in Nat /\ MaxConns \in Nat /\ MaxSends \in Nat
  /\ OnCloseDoes \subseteq {"nothing", "reconnect", "close"} /\ OnCloseDoes # {}

VARIABLES
  client,   \* the members of the Client, and its place in the Context
  queue,    \* posted handlers
  dials,    \* async_connects under way
  conns,    \* the Conns there have been
  holds,    \* whether the application keeps what Dial returned
  gone,     \* whether the client was destroyed
  event,    \* what the last step told the user
  overlap,  \* history: Connect was called during an attempt or a connection, or
            \* Reconnect beside an attempt that the timer has begun (465)
  calls,    \* history: calls of the application
  sends     \* history: messages sent

vars == <<client, queue, dials, conns, holds, gone, event, overlap, calls, sends>>

NoConn == 0
Job(kind, c, m) == [kind |-> kind, conn |-> c, msg |-> m]
Queued(kinds) == \E i \in DOMAIN queue : queue[i].kind \in kinds

TypeOK ==
  /\ client \in [manual : BOOLEAN, connecting : BOOLEAN, connected : BOOLEAN,
                 conn : 0..Len(conns), armed : BOOLEAN, kept : BOOLEAN, cancelled : BOOLEAN]
  /\ \A i \in DOMAIN queue : queue[i].kind \in {"connect", "timer", "start", "send", "close"}
  /\ Len(conns) <= MaxConns
  /\ event \in {"none", "connected", "closed"} /\ calls \in 0..MaxCalls /\ sends \in 0..MaxSends

(* Dial: the client is made, kept by the Context and told to connect.       *)
(* cancelled is a history: a timer that waited was cancelled, and there has *)
(* been no Connect since.                                                   *)
Init ==
  /\ client = [manual |-> FALSE, connecting |-> TRUE, connected |-> FALSE,
               conn |-> NoConn, armed |-> FALSE, kept |-> TRUE, cancelled |-> FALSE]
  /\ queue = <<Job("connect", 0, 0)>> /\ dials = 0 /\ conns = <<>>
  /\ holds \in BOOLEAN /\ gone = FALSE /\ event = "none"
  /\ overlap = FALSE /\ calls = 0 /\ sends = 0

-----------------------------------------------------------------------------
(* The public calls on the client's members                                 *)

Connect(s) ==
  [s EXCEPT !.manual = FALSE, !.connecting = TRUE, !.armed = FALSE, !.cancelled = FALSE]

(* The handler of a cancelled timer leaves connecting_ as it is (463).      *)
Reconnect(s) ==
  IF s.connected \/ s.connecting
  THEN [s EXCEPT !.manual = FALSE, !.armed = FALSE, !.cancelled = @ \/ s.armed]
  ELSE [s EXCEPT !.manual = FALSE, !.armed = TRUE, !.connecting = TRUE]

Close(s) ==
  [s EXCEPT !.manual = TRUE, !.armed = FALSE, !.conn = NoConn, !.kept = FALSE,
            !.cancelled = @ \/ s.armed]
CloseJobs(s) == IF s.conn = NoConn THEN <<>> ELSE <<Job("close", s.conn, 0)>>

Underway == client.armed \/ Queued({"connect", "timer"}) \/ dials > 0

(* A client nobody refers to is destroyed at once: only a handler that is   *)
(* queued or awaited, the Context or the application keeps it.              *)
Alive == ~gone /\ (holds \/ client.kept \/ Underway)

Destroy ==
  /\ ~gone /\ ~Alive
  /\ gone' = TRUE /\ event' = "none"
  /\ client' = Close(client) /\ queue' = queue \o CloseJobs(client)
  /\ UNCHANGED <<dials, conns, holds, overlap, calls, sends>>

AppCall ==
  /\ Alive /\ holds /\ calls < MaxCalls
  /\ calls' = calls + 1 /\ event' = "none"
  /\ \/ /\ "connect" \in AppCalls
        /\ client' = Connect(client)
        /\ queue' = Append(queue, Job("connect", 0, 0))
        /\ overlap' = (overlap \/ Underway \/ client.connected)
     \/ /\ "reconnect" \in AppCalls
        /\ client' = Reconnect(client)
        /\ overlap' = (overlap \/ (Underway /\ ~client.connecting))
        /\ UNCHANGED queue
     \/ /\ "close" \in AppCalls
        /\ client' = Close(client) /\ queue' = queue \o CloseJobs(client)
        /\ UNCHANGED overlap
  /\ UNCHANGED <<dials, conns, holds, gone, sends>>

(* Send posts to the strand of the current Conn, if there is one.           *)
Send ==
  /\ Alive /\ holds /\ client.conn # NoConn /\ sends < MaxSends
  /\ sends' = sends + 1 /\ event' = "none"
  /\ queue' = Append(queue, Job("send", client.conn, sends + 1))
  /\ UNCHANGED <<client, dials, conns, holds, gone, overlap, calls>>

-----------------------------------------------------------------------------
(* What the handlers do to the client                                       *)

Quiet(s, q) == client' = s /\ queue' = q /\ event' = "none"

(* The wrapper that Dial puts round OnClose: the user's handler, then       *)
(* DropClient.  s are the members when it is called, q the queue.           *)
TellClosed_Nobody(s, q) == Quiet(s, q)
TellClosed(s, q) ==
  /\ event' = "closed"
  /\ \E does \in OnCloseDoes :
       LET t == CASE does = "reconnect" -> Reconnect(s)
                  [] does = "close" -> Close(s)
                  [] OTHER -> s
       IN /\ client' = [t EXCEPT !.kept = FALSE]
          /\ queue' = IF does = "close" THEN q \o CloseJobs(s) ELSE q

ResolveFailed_Forgets(s) == s
ResolveFailed(s) == [s EXCEPT !.connecting = FALSE]

(* DoConnect: nothing after Close; a name that does not resolve; or an      *)
(* async_connect.                                                           *)
DoConnect(s, q) ==
  \/ /\ s.manual
     /\ Quiet([s EXCEPT !.connecting = FALSE], q) /\ UNCHANGED dials
  \/ /\ ~s.manual
     /\ TellClosed(ResolveFailed(s), q) /\ UNCHANGED dials
  \/ /\ ~s.manual
     /\ Quiet(s, q) /\ dials' = dials + 1

ConnectsAfterClose_Ignores(s) == TRUE
ConnectsAfterClose(s) == ~s.manual

(* The answer to async_connect, and OnConnectDone.  A refusal is told even  *)
(* after Close.                                                             *)
DialDone ==
  /\ dials > 0 /\ dials' = dials - 1
  /\ LET s == [client EXCEPT !.connecting = FALSE]
         c == Len(conns) + 1
     IN \/ TellClosed(s, queue) /\ UNCHANGED conns
        \/ /\ ~ConnectsAfterClose(s)
           /\ Quiet(s, queue) /\ UNCHANGED conns
        \/ /\ ConnectsAfterClose(s) /\ c <= MaxConns
           /\ conns' = Append(conns, [closed |-> FALSE, reading |-> FALSE, started |-> FALSE,
                                      outbox |-> <<>>, writing |-> FALSE])
           /\ client' = [s EXCEPT !.conn = c, !.connected = TRUE]
           /\ queue' = Append(queue, Job("start", c, 0))
           /\ event' = "connected"
  /\ UNCHANGED <<holds, gone, overlap, calls, sends>>

TimerFires ==
  /\ client.armed
  /\ client' = [client EXCEPT !.armed = FALSE]
  /\ queue' = Append(queue, Job("timer", 0, 0)) /\ event' = "none"
  /\ UNCHANGED <<dials, conns, holds, gone, overlap, calls, sends>>

-----------------------------------------------------------------------------
(* What the handlers do to a Conn                                           *)

(* HandleClose, once: CloseNow, and the close handler OnConnectDone set,    *)
(* which finds the client or not.  r is the Conn as the handler leaves it.  *)
HandleClose(c, r, q) ==
  /\ conns' = [conns EXCEPT ![c] = [r EXCEPT !.closed = TRUE, !.outbox = <<>>]]
  /\ IF conns[c].closed \/ gone
     THEN Quiet(client, q)
     ELSE LET s == [client EXCEPT !.connected = FALSE, !.conn = NoConn]
          IN IF client.manual THEN Quiet(s, q) ELSE TellClosed(s, q)

Changes(c, r, q) == conns' = [conns EXCEPT ![c] = r] /\ Quiet(client, q)

(* DoWrite: one async_write at a time, of the front of the outbox.          *)
DoWrite(r) == [r EXCEPT !.writing = r.outbox # <<>> /\ ~r.closed]

(* The handler at the head of the queue.                                    *)
RunJob ==
  /\ Alive \/ gone
  /\ queue # <<>>
  /\ LET job == Head(queue)  q == Tail(queue)  c == job.conn IN
     \/ /\ job.kind = "connect"
        /\ DoConnect(client, q) /\ UNCHANGED conns
     \/ /\ job.kind = "timer"
        /\ DoConnect([client EXCEPT !.connecting = FALSE], q) /\ UNCHANGED conns
     \/ /\ job.kind = "start"
        /\ Changes(c, [conns[c] EXCEPT !.started = ~conns[c].closed,
                                       !.reading = ~conns[c].closed], q)
        /\ UNCHANGED dials
     \/ /\ job.kind = "send"
        /\ LET r == [conns[c] EXCEPT !.outbox = IF conns[c].closed THEN @ ELSE Append(@, job.msg)]
           IN Changes(c, IF r.writing THEN r ELSE DoWrite(r), q)
        /\ UNCHANGED dials
     \/ /\ job.kind = "close"
        /\ HandleClose(c, conns[c], q) /\ UNCHANGED dials
  /\ UNCHANGED <<holds, gone, overlap, calls, sends>>

(* Something was read: the loop over the messages goes on reading; or the   *)
(* user's handler answers -1, or the read failed.                           *)
ReadDone ==
  /\ \E c \in DOMAIN conns :
       /\ conns[c].reading
       /\ \/ ~conns[c].closed /\ ~gone /\ Changes(c, conns[c], queue)
          \/ HandleClose(c, [conns[c] EXCEPT !.reading = FALSE], queue)
  /\ UNCHANGED <<dials, holds, gone, overlap, calls, sends>>

WriteDone ==
  /\ \E c \in DOMAIN conns :
       /\ conns[c].writing
       /\ LET r == conns[c]
              sent == [r EXCEPT !.outbox = Tail(@)]
              lost == [r EXCEPT !.outbox = IF @ = <<>> THEN @ ELSE Tail(@), !.writing = FALSE]
          IN \/ ~r.closed /\ Changes(c, DoWrite(sent), queue)
             \/ HandleClose(c, lost, queue)
  /\ UNCHANGED <<dials, holds, gone, overlap, calls, sends>>

Io == (Alive \/ gone) /\ (RunJob \/ DialDone \/ TimerFires \/ ReadDone \/ WriteDone)
Next == Destroy \/ AppCall \/ Send \/ Io

Spec == Init /\ [][Next]_vars
FairSpec == Spec /\ WF_vars(RunJob) /\ WF_vars(DialDone) /\ WF_vars(TimerFires) /\ WF_vars(Destroy)

-----------------------------------------------------------------------------
(* INVARIANT.  connecting_ stands for an attempt that is under way, so that *)
(* no Reconnect is ignored for ever (449-454).  Two exceptions.  A timer    *)
(* that waits is cancelled by Close (394) or by another Reconnect (451):    *)
(* its handler returns (463) without clearing connecting_, and from then on *)
(* every Reconnect is ignored, until a Connect.  And Connect was called     *)
(* during an attempt or a connection, or Reconnect beside an attempt which  *)
(* the timer has begun, and connecting_ no longer shows (465).              *)
NeverStuck == ~overlap /\ ~client.cancelled /\ client.connecting => Underway

(* PROPERTY.  After Close the client is inert: no connection is reported,   *)
(* and nothing is set going unless the user's own OnClose, told of an       *)
(* attempt that was refused, asks for it.                                   *)
ClosedIsInert ==
  [][client.manual => /\ event' # "connected"
                      /\ (Underway' /\ ~Underway => calls' # calls \/ event' = "closed")]_vars

(* PROPERTY.  The user hears of every attempt: a connection, its end, or    *)
(* his own Close; unless Reconnect has cancelled the timer of an attempt,   *)
(* or another attempt was begun beside it (overlap).                        *)
AttemptAnswered ==
  Underway /\ ~client.manual ~>
    event # "none" \/ client.manual \/ client.cancelled \/ overlap
=============================================================================
