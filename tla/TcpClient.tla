------------------------------ MODULE TcpClient ------------------------------
(***************************************************************************)
(* libtcp::Client (net/tcp.hpp): a TCP client on an epoll loop that         *)
(* resolves a host, tries its addresses in turn without blocking, and after *)
(* a loss or a failure connects again when its user calls Reconnect from    *)
(* the OnClose callback.                                                    *)
(*                                                                          *)
(* The thread that dials, the loop, and the detached threads that resolve   *)
(* names share the client's fields without a lock.  A handler is one action *)
(* up to the points where another thread gets in between: getaddrinfo,      *)
(* which blocks, and Conn::Start, after which the loop serves the new       *)
(* connection.  Each handler is written as the set of states it may leave.  *)
(***************************************************************************)
EXTENDS Integers, FiniteSets

CONSTANTS
  Hosts,      \* hosts the user asks for
  N,          \* addresses each host resolves to
  Dialer,     \* the thread that calls Context::Dial
  Loop,       \* the thread that runs Context::Loop
  Resolvers,  \* bound: detached resolver threads alive at a time
  MaxConns,   \* bound: connections open at a time
  AppCalls,   \* what the application calls from the loop's thread
  MaxCalls,   \* bound: how often it does
  OnCloseDoes, \* what the user's OnClose callback does
  Failures,   \* what may fail besides connect: "dns", "timerfd"
  None

Threads == {Dialer, Loop} \cup Resolvers
Conns == 1..MaxConns

(* A connecting socket: the host and the index of its address, and what the *)
(* kernel knows of the attempt.                                             *)
Sockets == [to : Hosts, idx : 0..(N - 1), st : {"pending", "up", "refused"}]

ASSUME ClientAssumption ==
  /\ Dialer # Loop /\ Dialer \notin Resolvers /\ Loop \notin Resolvers
  /\ N \in Nat \ {0} /\ MaxConns \in Nat /\ MaxCalls \in Nat
  /\ AppCalls \subseteq {"connect", "close", "reconnect"}
  /\ OnCloseDoes # {} /\ OnCloseDoes \subseteq {"nothing", "reconnect", "close"}
  /\ Failures \subseteq {"dns", "timerfd"}
  /\ None \notin Hosts /\ None \notin Conns /\ None \notin Sockets

(* Where a thread is: outside, inside getaddrinfo for h, or between Start   *)
(* and connected_ = true.                                                   *)
Idle == <<"idle">>
Resolving(h) == <<"resolve", h>>
Started == <<"started">>

VARIABLES
  s,      \* the client's fields and what they refer to
  th,     \* where each thread is
  calls   \* calls the application has made

vars == <<s, th, calls>>

ClientType ==
  [manual : BOOLEAN, connecting : BOOLEAN, connected : BOOLEAN,
   timer : BOOLEAN, host : Hosts \cup {None}, addrs : Hosts \cup {None},
   idx : Nat, sock : Sockets \cup {None}, conn : Conns \cup {None},
   open : SUBSET Conns, ctx : BOOLEAN, fresh : BOOLEAN,
   asked : BOOLEAN, failed : BOOLEAN, raced : BOOLEAN, doubled : BOOLEAN]
TypeOK ==
  /\ s \in ClientType /\ s.idx <= N /\ ~s.fresh
  /\ th \in [Threads -> {Idle, Started} \cup {Resolving(h) : h \in Hosts}]
  /\ calls \in 0..MaxCalls

(* The fields from open on are no fields of the class: the connections that *)
(* are open; whether the Context exists; fresh marks a handler's result     *)
(* whose connection is started but not yet announced; asked: a Connect      *)
(* waits for its callback; failed: a resolution or a timerfd_create has     *)
(* failed since Connect; raced: the loop ran while another thread was       *)
(* between Start and connected_ = true; doubled: Connect was called while a *)
(* connection was open.                                                     *)
Init ==
  /\ s = [manual |-> FALSE, connecting |-> FALSE, connected |-> FALSE,
          timer |-> FALSE, host |-> None, addrs |-> None, idx |-> 0,
          sock |-> None, conn |-> None, open |-> {}, ctx |-> TRUE,
          fresh |-> FALSE, asked |-> FALSE, failed |-> FALSE, raced |-> FALSE,
          doubled |-> FALSE]
  /\ th = [t \in Threads |-> Idle]
  /\ calls = 0

-----------------------------------------------------------------------------
(* The client's functions                                                   *)

CancelTimer(c) == [c EXCEPT !.timer = FALSE]
CloseSock(c) == [c EXCEPT !.sock = None]

ScheduleReconnect(c) ==
  IF c.manual \/ c.connected \/ c.connecting \/ c.timer THEN {c}
  ELSE LET d == [c EXCEPT !.connecting = TRUE]
       IN  {[d EXCEPT !.timer = TRUE]} \cup
           {[d EXCEPT !.failed = TRUE] : f \in Failures \cap {"timerfd"}}

Reconnect(c) ==
  LET d == CancelTimer([c EXCEPT !.manual = FALSE])
  IN  IF ~d.connected /\ ~d.connecting THEN ScheduleReconnect(d) ELSE {d}

(* What a Conn's close handler resets, and Conn k going away.               *)
Forget(c, k) == [c EXCEPT !.open = @ \ {k}, !.conn = None, !.connected = FALSE]

(* Close; the Conn it closes calls the close handler, which finds           *)
(* manual_close_ set and tells nobody.                                      *)
Close_KeepsConn(c) ==
  [CloseSock(CancelTimer(c)) EXCEPT !.manual = TRUE, !.conn = None, !.asked = FALSE]
Close(c) ==
  LET d == [CloseSock(CancelTimer(c)) EXCEPT
              !.manual = TRUE, !.conn = None, !.asked = FALSE]
  IN  IF c.conn \in c.open THEN Forget(d, c.conn) ELSE d

(* on_close_: the user's callback, told of an error or of a lost connection.*)
TellClosed(c) ==
  LET d == [c EXCEPT !.asked = FALSE]
  IN  UNION {CASE does = "reconnect" -> Reconnect(d)
               [] does = "close" -> {Close(d)}
               [] does = "nothing" -> {d} : does \in OnCloseDoes}

(* OnConnectDone up to conn_->Start().                                      *)
OnConnectDone(c) ==
  IF ~c.ctx \/ c.manual THEN {[c EXCEPT !.connecting = FALSE]}
  ELSE {[c EXCEPT !.connecting = FALSE, !.conn = k, !.open = @ \cup {k},
                  !.fresh = TRUE] : k \in Conns \ c.open}

(* Its last lines: connected_ and the callback.                             *)
Announce(c) == [c EXCEPT !.connected = TRUE, !.asked = FALSE, !.fresh = FALSE]

Exhausted_StillConnecting(c) == TellClosed(c)
Exhausted(c) == TellClosed([c EXCEPT !.connecting = FALSE])

(* The addresses from addr_idx_ on: some fail at once, the next is under    *)
(* way or connected; or all of them fail.                                   *)
TryAddresses(c) ==
  UNION {LET d == [c EXCEPT !.idx = j]
         IN  IF j = N THEN Exhausted(d)
             ELSE {[d EXCEPT !.sock = [to |-> d.addrs, idx |-> j, st |-> "pending"]]}
                  \cup OnConnectDone(d) : j \in c.idx..N}

TryConnectNext(c) ==
  IF ~c.ctx THEN Exhausted(c)
  ELSE IF c.manual THEN {CloseSock(c)}
  ELSE TryAddresses(CloseSock(c))

(* DoResolveAndConnect once getaddrinfo has answered for h.                 *)
Unresolved_Silent(c) == {[c EXCEPT !.failed = TRUE]}
Unresolved(c) == TellClosed([c EXCEPT !.failed = TRUE])
Resolved(c, h) ==
  (UNION {Unresolved(c) : f \in Failures \cap {"dns"}})
    \cup TryConnectNext([c EXCEPT !.addrs = h, !.idx = 0])

-----------------------------------------------------------------------------
(* Threads                                                                  *)

Midway == \E t \in Threads : th[t] = Started

(* Thread t leaves one of the states of results.  A connection started on   *)
(* the loop's own thread is announced before the loop can serve it.         *)
Leaves(t, results) ==
  \E c \in results :
    LET d == [c EXCEPT !.fresh = FALSE,
                       !.raced = @ \/ (t = Loop /\ Midway)]
    IN  /\ s' = IF c.fresh /\ t = Loop THEN Announce(d) ELSE d
        /\ th' = [th EXCEPT ![t] = IF c.fresh /\ t # Loop THEN Started ELSE Idle]

(* Connect on thread t: with no usable address the name is resolved first.  *)
ConnectOn(t, h) ==
  LET c == CloseSock(CancelTimer([s EXCEPT
             !.manual = FALSE, !.connecting = TRUE, !.host = h, !.asked = TRUE,
             !.failed = FALSE, !.doubled = @ \/ s.open # {}]))
  IN  /\ th[t] = Idle /\ s.ctx
      /\ \/ /\ c.addrs = None \/ c.idx >= N
            /\ s' = [c EXCEPT !.idx = 0]
            /\ th' = [th EXCEPT ![t] = Resolving(h)]
         \/ /\ ~(c.addrs = None \/ c.idx >= N)
            /\ Leaves(t, TryConnectNext([c EXCEPT !.idx = 0]))

(* Context::Dial, once.                                                     *)
Dial == s.host = None /\ (\E h \in Hosts : ConnectOn(Dialer, h)) /\ UNCHANGED calls

ResolveDone(t) ==
  /\ \E h \in Hosts : th[t] = Resolving(h) /\ Leaves(t, Resolved(s, h))
  /\ UNCHANGED calls

AnnounceOn(t) ==
  /\ th[t] = Started
  /\ s' = Announce(s)
  /\ th' = [th EXCEPT ![t] = Idle]
  /\ UNCHANGED calls

(* Calls the application makes on the loop's thread, from a callback of     *)
(* some other client say; Connect also while a connection is open or an     *)
(* attempt under way, but not while another thread is inside the client,    *)
(* whose fields have no lock.                                               *)
AppCall ==
  /\ th[Loop] = Idle /\ s.host # None /\ calls < MaxCalls
  /\ calls' = calls + 1
  /\ \/ /\ "close" \in AppCalls
        /\ Leaves(Loop, {Close(s)})
     \/ /\ "reconnect" \in AppCalls
        /\ Leaves(Loop, Reconnect(s))
     \/ /\ "connect" \in AppCalls
        /\ \A t \in Threads : th[t] = Idle
        /\ \E h \in Hosts : ConnectOn(Loop, h)

-----------------------------------------------------------------------------
(* The loop's handlers                                                      *)

OnTimer ==
  /\ th[Loop] = Idle /\ s.ctx /\ s.timer
  /\ LET c == CancelTimer([s EXCEPT !.connecting = FALSE])
     IN  IF c.manual \/ c.addrs # None
         THEN Leaves(Loop, IF c.manual THEN {c}
                           ELSE TryConnectNext([c EXCEPT !.idx = 0]))
         ELSE /\ s' = c
              /\ \E t \in Resolvers :
                   th[t] = Idle /\ th' = [th EXCEPT ![t] = Resolving(c.host)]
  /\ UNCHANGED calls

OnConnectEvent ==
  /\ th[Loop] = Idle /\ s.ctx
  /\ s.sock # None /\ s.sock.st # "pending"
  /\ LET c == CloseSock(s)
     IN  Leaves(Loop,
           IF c.manual THEN {[c EXCEPT !.connecting = FALSE]}
           ELSE IF s.sock.st = "refused" THEN TryConnectNext([c EXCEPT !.idx = @ + 1])
           ELSE OnConnectDone(c))
  /\ UNCHANGED calls

(* The peer, an error, or the message handler ends connection k: Conn calls *)
(* the close handler that OnConnectDone gave it.                            *)
ConnLost(k) ==
  /\ th[Loop] = Idle /\ s.ctx
  /\ k \in s.open
  /\ LET c == Forget(s, k)
     IN  Leaves(Loop, IF c.manual THEN {c} ELSE TellClosed(c))
  /\ UNCHANGED calls

-----------------------------------------------------------------------------
(* The kernel, and the end of the Context                                   *)

Answer ==
  /\ s.sock # None /\ s.sock.st = "pending"
  /\ \E st \in {"up", "refused"} : s' = [s EXCEPT !.sock.st = st]
  /\ UNCHANGED <<th, calls>>

(* A Conn, a thread inside Connect and a running handler each hold the      *)
(* Context; the client itself does not.                                     *)
ContextGone ==
  /\ s.ctx /\ s.open = {} /\ th[Dialer] = Idle /\ th[Loop] = Idle
  /\ s' = [s EXCEPT !.ctx = FALSE]
  /\ UNCHANGED <<th, calls>>

LoopStep == OnTimer \/ OnConnectEvent
ThreadStep(t) == ResolveDone(t) \/ AnnounceOn(t)

Next ==
  \/ Dial \/ AppCall \/ LoopStep \/ Answer \/ ContextGone
  \/ \E k \in Conns : ConnLost(k)
  \/ \E t \in Threads : ThreadStep(t)

Spec == Init /\ [][Next]_vars

(* Fairness: the kernel settles every attempt, the loop serves what is      *)
(* ready, a thread inside a call goes on.  Nobody is obliged to lose a      *)
(* connection, to call, or to drop the Context.                             *)
FairSpec ==
  /\ Spec
  /\ WF_vars(Answer) /\ WF_vars(OnTimer) /\ WF_vars(OnConnectEvent)
  /\ \A t \in Threads : WF_vars(ThreadStep(t))

-----------------------------------------------------------------------------
(* Properties                                                               *)

Settled == \A t \in Threads : th[t] = Idle

(* The client never loses sight of an open connection: opening a second one *)
(* would leave the first served by the loop and out of Close's reach        *)
(* (733-748, 757-762).  And once calls have settled IsConnected (493) tells  *)
(* the truth, unless the loop served the connection before the thread that  *)
(* made it had set connected_ (768-769).  The exception: a Connect while a  *)
(* connection is open (607-633 does not look) does just that, and the end   *)
(* of the first resets conn_ and connected_ of the second (761-762).        *)
NoOrphan ==
  ~s.doubled =>
    /\ s.open \subseteq {s.conn}
    /\ Settled /\ ~s.raced => (s.connected <=> s.open # {})

(* Line 453: the client reconnects by itself, when OnClose calls Reconnect  *)
(* as line 467 has it.  A client that was not closed always has a           *)
(* connection, an attempt or a timer: through lost connections, refused     *)
(* addresses and closing, as long as no resolution and no timerfd_create    *)
(* has failed, the loop has not overtaken a dialling thread (503-545,       *)
(* 635-731, 757-772), and Connect was not called while a connection was     *)
(* open: of two connections, the end of one starts the timer and the end of *)
(* the other cancels it (637-639).                                          *)
ReconnectsWhenResolved ==
  Settled /\ s.ctx /\ s.host # None /\ ~s.manual /\ ~s.failed /\ ~s.raced /\ ~s.doubled =>
    s.open # {} \/ s.sock # None \/ s.timer

(* Every Connect is answered by OnConnect or OnClose, unless the user       *)
(* closes first (607-772).                                                  *)
ConnectAnswered == s.asked ~> ~s.asked \/ ~s.ctx
=============================================================================
