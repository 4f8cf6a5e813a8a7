------------------------------ MODULE TcpLoop ------------------------------
(***************************************************************************)
(* The epoll loop of libtcp (net/tcp.hpp): Context with its table of        *)
(* handlers, the batches that epoll_wait returns, RunAsync, Stop and Join,  *)
(* and Server, which accepts connections.  Two threads: the loop's and the  *)
(* application's, which opens and closes connections of its own, stops the  *)
(* server and stops the loop.  Numbers of descriptors are reused, the       *)
(* lowest free one first.  A connection is as much of Conn as the loop sees *)
(* (TcpConn has the rest): its fd_, closed_, and what it has received.      *)
(* A handler on the loop's thread is one action; what the application's     *)
(* thread does meanwhile is a step for each access.                         *)
(***************************************************************************)
EXTENDS Integers, Sequences, FiniteSets, SequencesExt

CONSTANTS
  Peers,     \* connections that peers make, numbered from 1
  Dialed,    \* connections that the application's thread makes
  Watched,   \* connections whose service is checked: peers are alike, so one of them
  LastFd,    \* bound: the process has the numbers 1..LastFd
  MaxSends,  \* bound: what a peer sends
  MaxCalls,  \* bound: what the application's thread closes
  MaxRuns    \* bound: RunAsync after Join

ASSUME LoopAssumption ==
  /\ Peers \subseteq Nat \ {0} /\ Dialed \subseteq Nat \ {0} /\ Peers \cap Dialed = {}
  /\ Watched \subseteq Peers \cup Dialed
  /\ LastFd \in Nat \ {0} /\ MaxSends \in Nat /\ MaxCalls \in Nat /\ MaxRuns \in Nat

VARIABLES
  net,      \* descriptors, table and connections
  waiting,  \* connections in the backlog of the listening socket
  loop,     \* the loop's thread: its place, the rest of its batch, the handler it calls
  running,  \* running_
  app,      \* the application's thread: its place, and the object it handles
  calls,    \* history: closings begun
  runs,     \* history: threads started
  stopped,  \* history: Stop was called since the loop last set running_
  crossed   \* history: a handler ran between ::close and fd_ = -1 of another thread

vars == <<net, waiting, loop, running, app, calls, runs, stopped, crossed>>

Listener == 0
Conns == Peers \cup Dialed
Objects == Conns \cup {Listener}
Nobody == -1
NoFd == 0
Fds == 1..LastFd

(* Why a connection was closed, or that it was not: its peer ended, the     *)
(* user closed it, or an event was taken for its own that was not.          *)
Closings == {"no", "peer", "user", "stale"}
NetType ==
  [owner : [Fds -> Objects \cup {Nobody}], table : [Fds -> Objects \cup {Nobody}],
   interest : SUBSET Fds, fd : [Objects -> Fds \cup {NoFd}],
   closed : [Conns -> Closings], ended : [Conns -> {"no", "eof", "reset"}],
   unread : [Conns -> Nat], sent : [Conns -> 0..MaxSends], got : [Conns -> SUBSET Conns]]
TypeOK ==
  /\ net \in NetType /\ waiting \subseteq Peers
  /\ loop \in [at : {"none", "starting", "poll", "dispatch", "call"},
              batch : Seq([fd : Fds, what : {"in", "hup"}]), cb : Objects \cup {Nobody}]
  /\ app \in [at : {"idle", "ctl-add", "enter", "erase", "close", "forget", "join"},
             obj : Objects \cup {Nobody}]
  /\ running \in BOOLEAN /\ stopped \in BOOLEAN /\ crossed \in BOOLEAN
  /\ calls \in 0..MaxCalls /\ runs \in 0..MaxRuns

(* Bound: nothing more happens once the last loop has ended.                *)
Observed == runs < MaxRuns \/ loop.at # "none"

Idle == [at |-> "idle", obj |-> Nobody]
NoLoop == [at |-> "none", batch |-> <<>>, cb |-> Nobody]

Init ==
  /\ net = [owner |-> [f \in Fds |-> IF f = 1 THEN Listener ELSE Nobody],
            interest |-> {}, table |-> [f \in Fds |-> Nobody],
            fd |-> [o \in Objects |-> IF o = Listener THEN 1 ELSE NoFd],
            closed |-> [c \in Conns |-> "no"], ended |-> [c \in Conns |-> "no"],
            unread |-> [c \in Conns |-> 0], sent |-> [c \in Conns |-> 0],
            got |-> [c \in Conns |-> {}]]
  /\ waiting = {} /\ loop = NoLoop /\ running = FALSE
  /\ app = [at |-> "ctl-add", obj |-> Listener]
  /\ calls = 0 /\ runs = 0 /\ stopped = FALSE /\ crossed = FALSE

-----------------------------------------------------------------------------
(* The kernel and the table, as operators on net                            *)

Free(s) == {f \in Fds : s.owner[f] = Nobody}
Lowest(S) == CHOOSE f \in S : \A g \in S : f <= g
Open(s, o) == [s EXCEPT !.owner[Lowest(Free(s))] = o, !.fd[o] = Lowest(Free(s))]

CtlAdd(s, f) == IF f = NoFd THEN s ELSE [s EXCEPT !.interest = @ \cup {f}]
Enter(s, o) == IF s.fd[o] = NoFd THEN s ELSE [s EXCEPT !.table[s.fd[o]] = o]
AddFd(s, o) == Enter(CtlAdd(s, s.fd[o]), o)

Erase_Late(s, f) == s
Erase(s, f) == [s EXCEPT !.table[f] = Nobody]
CtlDel(s, f) == [s EXCEPT !.interest = @ \ {f}]
(* ::close also ends the kernel's interest in the descriptor; what the peer *)
(* had sent is discarded, and it can send no more.                          *)
CloseNumber(s, f) ==
  LET o == s.owner[f]
      t == [s EXCEPT !.owner[f] = Nobody, !.interest = @ \ {f}]
  IN IF o \notin Conns THEN t
     ELSE [t EXCEPT !.unread[o] = 0, !.ended[o] = "no", !.sent[o] = MaxSends]
Forget_Keeps(s, o) == s
Forget(s, o) == [s EXCEPT !.fd[o] = NoFd]

(* close_now on the loop's thread.                                          *)
CloseNow(s, c, why) ==
  IF s.closed[c] # "no" THEN s
  ELSE LET t == [s EXCEPT !.closed[c] = why]  f == s.fd[c]
       IN IF f = NoFd THEN t
          ELSE Forget(CloseNumber(CtlDel(Erase(t, f), f), f), c)

(* What epoll reports of an open descriptor.                                *)
Event(f) ==
  LET o == net.owner[f] IN
  CASE o = Listener -> IF waiting # {} THEN {"in"} ELSE {}
    [] o \in Conns -> IF net.ended[o] = "reset" THEN {"hup"}
                      ELSE IF net.unread[o] > 0 \/ net.ended[o] = "eof" THEN {"in"} ELSE {}
    [] OTHER -> {}
Ready == UNION {{[fd |-> f, what |-> w] : w \in Event(f)} : f \in net.interest}

-----------------------------------------------------------------------------
(* Handlers, on the loop's thread                                           *)

(* What the user's message handler may do to connections; the handler's     *)
(* result says how much it took, which is TcpConn's.                        *)
UserHandles(s, c) ==
  {s} \cup {CloseNow(s, d, "user") : d \in {d \in Conns : s.fd[d] # NoFd /\ app.obj # d}}

(* recv until nothing is left: of whatever has the number fd_ now.          *)
NothingLeft(s, c, o) == s.ended[o] # "no"
HandleRead(s, c) ==
  LET o == IF s.fd[c] = NoFd THEN Nobody ELSE s.owner[s.fd[c]]
      read == [s EXCEPT !.unread[o] = 0, !.got[c] = @ \cup {o}]
      after == IF s.unread[o] = 0 THEN {s} ELSE UserHandles(read, c)
  IN IF o \notin Conns THEN {CloseNow(s, c, "peer")}
     ELSE {IF NothingLeft(t, c, o) THEN CloseNow(t, c, "peer") ELSE t : t \in after}

(* An error or hang-up closes whoever has the number by now.                *)
HandleEvent(s, c, what) ==
  IF what = "hup" THEN {CloseNow(s, c, IF s.ended[c] = "reset" THEN "peer" ELSE "stale")}
  ELSE HandleRead(s, c)

Serves_Nobody(s, c) == Open(s, c)
Serves(s, c) == AddFd(Open(s, c), c)
(* accept, which fails once the socket is closed, nobody waits or no number *)
(* is free.  Its loop is a step for each connection: the app runs between.  *)
CanAccept ==
  /\ net.fd[Listener] # NoFd /\ net.owner[net.fd[Listener]] = Listener
  /\ waiting # {} /\ Free(net) # {}

-----------------------------------------------------------------------------
(* The loop                                                                 *)

GoesOn_Always == TRUE
GoesOn == running

LoopBegins ==
  /\ loop.at = "starting"
  /\ running' = TRUE /\ loop' = [loop EXCEPT !.at = "poll"]
  /\ UNCHANGED <<net, waiting, app, calls, runs, stopped, crossed>>

LoopPolls ==
  /\ loop.at = "poll" /\ GoesOn
  /\ Ready # {}
  /\ \E batch \in SetToSeqs(Ready) : loop' = [loop EXCEPT !.at = "dispatch", !.batch = batch]
  /\ UNCHANGED <<net, waiting, running, app, calls, runs, stopped, crossed>>

LoopEnds ==
  /\ loop.at = "poll" /\ ~GoesOn
  /\ loop' = NoLoop
  /\ UNCHANGED <<net, waiting, running, app, calls, runs, stopped, crossed>>

(* The event at the head of the batch has been dealt with.                  *)
Returned ==
  [at |-> IF Tail(loop.batch) = <<>> THEN "poll" ELSE "dispatch",
   batch |-> Tail(loop.batch), cb |-> Nobody]

(* The handler is copied out of the table, under the table's lock.          *)
LoopDispatches ==
  /\ loop.at = "dispatch"
  /\ LET cb == net.table[Head(loop.batch).fd]
     IN loop' = IF cb = Nobody THEN Returned ELSE [loop EXCEPT !.at = "call", !.cb = cb]
  /\ UNCHANGED <<net, waiting, running, app, calls, runs, stopped, crossed>>

HandleAccept ==
  /\ loop.at = "call" /\ loop.cb = Listener
  /\ \/ /\ CanAccept /\ UNCHANGED loop
        /\ \E c \in waiting : net' = Serves(net, c) /\ waiting' = waiting \ {c}
     \/ ~CanAccept /\ loop' = Returned /\ UNCHANGED <<net, waiting>>
  /\ UNCHANGED <<running, app, calls, runs, stopped, crossed>>

LoopCalls ==
  /\ loop.at = "call" /\ loop.cb \in Conns
  /\ net' \in HandleEvent(net, loop.cb, Head(loop.batch).what)
  /\ crossed' = (crossed \/ app = [at |-> "forget", obj |-> loop.cb])
  /\ loop' = Returned
  /\ UNCHANGED <<waiting, running, app, calls, runs, stopped>>

Loop == LoopBegins \/ LoopPolls \/ LoopEnds \/ LoopDispatches \/ HandleAccept \/ LoopCalls

-----------------------------------------------------------------------------
(* The application's thread.  Its places: ctl-add and enter (AddFd), erase, *)
(* close and forget (Server::Stop and close_now), join.  EPOLL_CTL_DEL and  *)
(* ::close are one step: an event between them finds no handler either way. *)

RunAsync ==
  /\ app = Idle /\ loop.at = "none" /\ runs < MaxRuns
  /\ loop' = [NoLoop EXCEPT !.at = "starting"] /\ runs' = runs + 1
  /\ stopped' = FALSE
  /\ UNCHANGED <<net, waiting, running, app, calls, crossed>>

Stop ==
  /\ app = Idle /\ runs > 0 /\ ~stopped
  /\ running' = FALSE /\ app' = [at |-> "join", obj |-> Nobody]
  /\ stopped' = (loop.at # "starting")
  /\ UNCHANGED <<net, waiting, loop, calls, runs, crossed>>

Join ==
  /\ app.at = "join" /\ loop.at = "none"
  /\ app' = Idle
  /\ UNCHANGED <<net, waiting, loop, running, calls, runs, stopped, crossed>>

(* Server::Stop, or close_now of a connection that was started: the test    *)
(* of closed_ and the store are one step here.                              *)
AppCloses ==
  /\ Observed /\ app = Idle /\ calls < MaxCalls
  /\ \E o \in Objects :
       /\ net.fd[o] # NoFd
       /\ o \in Conns => net.closed[o] = "no"
       /\ app' = [at |-> "erase", obj |-> o]
       /\ net' = IF o \in Conns THEN [net EXCEPT !.closed[o] = "user"] ELSE net
  /\ calls' = calls + 1
  /\ UNCHANGED <<waiting, loop, running, runs, stopped, crossed>>

(* A Client that has connected on this thread gets its Conn and starts it.  *)
AppOpens ==
  /\ Observed /\ app = Idle /\ Free(net) # {}
  /\ \E c \in Dialed :
       /\ net.fd[c] = NoFd /\ net.closed[c] = "no"
       /\ net' = Open(net, c) /\ app' = [at |-> "ctl-add", obj |-> c]
  /\ UNCHANGED <<waiting, loop, running, calls, runs, stopped, crossed>>

AppSteps ==
  /\ app.obj # Nobody
  /\ LET o == app.obj  f == net.fd[o] IN
     \/ /\ app.at = "ctl-add" /\ net' = CtlAdd(net, f)
        /\ app' = [app EXCEPT !.at = "enter"] /\ UNCHANGED waiting
     \/ /\ app.at = "enter" /\ net' = Enter(net, o) /\ app' = Idle /\ UNCHANGED waiting
     \/ /\ app.at = "erase" /\ net' = Erase(net, f)
        /\ app' = [app EXCEPT !.at = "close"] /\ UNCHANGED waiting
     \/ /\ app.at = "close" /\ net' = CloseNumber(CtlDel(net, f), f)
        /\ app' = [app EXCEPT !.at = "forget"]
        /\ waiting' = IF o = Listener THEN {} ELSE waiting
     \/ /\ app.at = "forget" /\ net' = Forget(net, o) /\ app' = Idle /\ UNCHANGED waiting
  /\ UNCHANGED <<loop, running, calls, runs, stopped, crossed>>

App == RunAsync \/ Stop \/ Join \/ AppCloses \/ AppOpens \/ AppSteps

-----------------------------------------------------------------------------
(* The peers                                                                *)

Live(c) == net.fd[c] # NoFd /\ net.owner[net.fd[c]] = c

PeerConnects ==
  /\ Observed /\ \E f \in Fds : net.owner[f] = Listener
  /\ \E c \in Peers : /\ net.fd[c] = NoFd /\ net.closed[c] = "no" /\ waiting' = waiting \cup {c}
                      /\ c \notin waiting
  /\ UNCHANGED <<net, loop, running, app, calls, runs, stopped, crossed>>

PeerActs ==
  /\ Observed
  /\ \E c \in Conns :
       /\ Live(c) /\ net.ended[c] = "no"
       /\ \/ /\ net.sent[c] < MaxSends
             /\ net' = [net EXCEPT !.unread[c] = @ + 1, !.sent[c] = @ + 1]
          \/ \E how \in {"eof", "reset"} : net' = [net EXCEPT !.ended[c] = how]
  /\ UNCHANGED <<waiting, loop, running, app, calls, runs, stopped, crossed>>

Next == Loop \/ App \/ PeerConnects \/ PeerActs

Spec == Init /\ [][Next]_vars
(* The loop's thread runs, and a call the application's thread is in.       *)
FairSpec == Spec /\ WF_vars(Loop) /\ WF_vars(AppSteps) /\ WF_vars(Join)

-----------------------------------------------------------------------------
(* INVARIANT.  A number in the table belongs to the object whose handler it *)
(* has, at every step of a closing: no event goes to one that is closed,    *)
(* and the table keeps nobody alive (AddFd, DelFd, close_now).              *)
TableTrue ==
  \A f \in Fds :
    LET o == net.table[f] IN
    o # Nobody => net.fd[o] = f /\ net.owner[f] = o

(* INVARIANT.  A connection receives what its own peer has sent, although   *)
(* its number may have a new owner by the time its handler runs; the window *)
(* between ::close and fd_ = -1 of another thread is the exception          *)
(* (HandleRead, CloseFd).                                                   *)
OwnData == crossed \/ \A c \in Conns : net.got[c] \subseteq {c}

(* PROPERTY.  What a peer has sent, and its end, reach the handler of a     *)
(* connection that is in the table, unless its peer's reset or the user     *)
(* closes it or the loop is not running; whoever else is served.  The reuse *)
(* of numbers makes two exceptions.  A hang-up of the number's former       *)
(* owner, later in the batch, closes the new one ("stale", 142-160): its    *)
(* peer has done nothing.  And in the window of OwnData another's handler   *)
(* reads what it was sent.                                                  *)
Served ==
  \A c \in Watched :
    /\ net.fd[c] # NoFd /\ (net.unread[c] > 0 \/ net.ended[c] # "no")
    ~> \/ net.unread[c] = 0 /\ net.ended[c] = "no" /\ net.closed[c] = "no"
       \/ net.closed[c] \in {"peer", "user"} \/ ~running
       \/ net.closed[c] = "stale" \/ crossed

(* PROPERTY.  Join after Stop returns, if the loop had begun when Stop was  *)
(* called (Stop, Loop, Join).                                               *)
JoinReturns == app.at = "join" /\ stopped ~> app.at # "join"
=============================================================================
