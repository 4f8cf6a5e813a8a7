--------------------------- MODULE TcpClientProofs ---------------------------
(***************************************************************************)
(* Theorems about TcpClient, for any number of hosts, addresses, resolver   *)
(* threads, connections and calls.                                          *)
(***************************************************************************)
EXTENDS TcpClient, TLAPS

-----------------------------------------------------------------------------
(* The client's functions: what each may change                             *)

(* What every handler leaves alone.                                         *)
Same(c, d) ==
  d.host = c.host /\ d.addrs = c.addrs /\ d.ctx = c.ctx /\ d.raced = c.raced /\ d.doubled = c.doubled

(* Nothing is under way: no connection, no attempt, no timer.               *)
Rest(c) == c.open = {} /\ c.sock = None /\ ~c.timer

LEMMA CancelEffect ==
  ASSUME NEW c \in ClientType
  PROVE  LET d == CloseSock(CancelTimer(c)) IN
         /\ d \in ClientType /\ Same(c, d) /\ ~d.timer /\ d.sock = None
         /\ d.idx = c.idx /\ d.manual = c.manual /\ d.connecting = c.connecting
         /\ d.connected = c.connected /\ d.open = c.open /\ d.conn = c.conn
         /\ d.fresh = c.fresh /\ d.failed = c.failed
BY DEF ClientType, CloseSock, CancelTimer, Same

(* A scheduled reconnection keeps the client connecting: it has a timer     *)
(* unless that could not be had.                                            *)
LEMMA ScheduleEffect ==
  ASSUME NEW c \in ClientType, NEW d \in ScheduleReconnect(c)
  PROVE  /\ d \in ClientType /\ Same(c, d)
         /\ d.idx = c.idx /\ d.manual = c.manual /\ d.connected = c.connected
         /\ d.open = c.open /\ d.conn = c.conn /\ d.sock = c.sock
         /\ d.fresh = c.fresh /\ (c.failed => d.failed)
         /\ IF c.manual \/ c.connected \/ c.connecting \/ c.timer THEN d = c
            ELSE d.connecting /\ (d.timer \/ d.failed)
<1> DEFINE e == [c EXCEPT !.connecting = TRUE]
           m == [e EXCEPT !.timer = TRUE]
           n == [e EXCEPT !.failed = TRUE]
<1>1. IF c.manual \/ c.connected \/ c.connecting \/ c.timer THEN d = c ELSE d \in {m, n}
  BY DEF ScheduleReconnect
<1>2. /\ e \in ClientType /\ Same(c, e)
      /\ e.idx = c.idx /\ e.manual = c.manual /\ e.connected = c.connected
      /\ e.open = c.open /\ e.conn = c.conn /\ e.sock = c.sock
      /\ e.fresh = c.fresh /\ e.failed = c.failed /\ e.connecting
  BY DEF ClientType, Same
<1> HIDE DEF e
<1>3. /\ m \in ClientType /\ Same(c, m)
      /\ m.idx = c.idx /\ m.manual = c.manual /\ m.connected = c.connected
      /\ m.open = c.open /\ m.conn = c.conn /\ m.sock = c.sock
      /\ m.fresh = c.fresh /\ m.failed = c.failed /\ m.connecting /\ m.timer
  BY <1>2 DEF ClientType, Same
<1>4. /\ n \in ClientType /\ Same(c, n)
      /\ n.idx = c.idx /\ n.manual = c.manual /\ n.connected = c.connected
      /\ n.open = c.open /\ n.conn = c.conn /\ n.sock = c.sock
      /\ n.fresh = c.fresh /\ n.failed /\ n.connecting
  BY <1>2 DEF ClientType, Same
<1> HIDE DEF m, n
<1>5. CASE c.manual \/ c.connected \/ c.connecting \/ c.timer
  BY <1>1, <1>5 DEF Same
<1>6. CASE ~(c.manual \/ c.connected \/ c.connecting \/ c.timer)
  BY <1>1, <1>3, <1>4, <1>6
<1> QED
  BY <1>5, <1>6

LEMMA ReconnectEffect ==
  ASSUME NEW c \in ClientType, NEW d \in Reconnect(c)
  PROVE  /\ d \in ClientType /\ Same(c, d)
         /\ d.idx = c.idx /\ ~d.manual /\ d.connected = c.connected
         /\ d.open = c.open /\ d.conn = c.conn /\ d.sock = c.sock
         /\ d.fresh = c.fresh /\ (c.failed => d.failed)
         /\ c.connecting => d.connecting /\ ~d.timer
         /\ ~c.connecting /\ ~c.connected => d.timer \/ d.failed
<1> DEFINE b == CancelTimer([c EXCEPT !.manual = FALSE])
<1>1. /\ b \in ClientType /\ Same(c, b) /\ b.idx = c.idx /\ ~b.manual /\ ~b.timer
      /\ b.connected = c.connected /\ b.connecting = c.connecting /\ b.open = c.open
      /\ b.conn = c.conn /\ b.sock = c.sock /\ b.fresh = c.fresh /\ b.failed = c.failed
  BY DEF ClientType, CancelTimer, Same
<1>2. d \in IF ~b.connected /\ ~b.connecting THEN ScheduleReconnect(b) ELSE {b}
  BY DEF Reconnect
<1> HIDE DEF b
<1>3. CASE d \in ScheduleReconnect(b) /\ ~b.connected /\ ~b.connecting
  BY <1>1, <1>3, ScheduleEffect DEF Same
<1>4. CASE d = b /\ ~(~b.connected /\ ~b.connecting)
  BY <1>1, <1>4 DEF Same
<1> QED
  BY <1>2, <1>3, <1>4

LEMMA ForgetEffect ==
  ASSUME NEW c \in ClientType, NEW k
  PROVE  LET d == Forget(c, k) IN
         /\ d \in ClientType /\ Same(c, d) /\ d.open = c.open \ {k} /\ ~d.connected
         /\ d.idx = c.idx /\ d.manual = c.manual /\ d.connecting = c.connecting
         /\ d.conn = None /\ d.sock = c.sock /\ d.timer = c.timer
         /\ d.fresh = c.fresh /\ d.failed = c.failed
BY DEF ClientType, Forget, Same

LEMMA CloseEffect ==
  ASSUME NEW c \in ClientType
  PROVE  LET d == Close(c) IN
         /\ d \in ClientType /\ Same(c, d) /\ d.manual /\ d.sock = None /\ ~d.timer
         /\ d.idx = c.idx /\ d.connecting = c.connecting /\ d.conn = None
         /\ d.open = c.open \ {c.conn}
         /\ d.connected <=> c.connected /\ c.conn \notin c.open
         /\ d.fresh = c.fresh /\ d.failed = c.failed
<1> DEFINE b == [CloseSock(CancelTimer(c)) EXCEPT !.manual = TRUE, !.conn = None, !.asked = FALSE]
<1>1. /\ b \in ClientType /\ Same(c, b) /\ b.manual /\ b.sock = None /\ ~b.timer
      /\ b.idx = c.idx /\ b.connecting = c.connecting /\ b.conn = None /\ b.open = c.open
      /\ b.connected = c.connected /\ b.fresh = c.fresh /\ b.failed = c.failed
  BY DEF ClientType, CloseSock, CancelTimer, Same
<1>2. Close(c) = IF c.conn \in c.open THEN Forget(b, c.conn) ELSE b
  BY DEF Close
<1> HIDE DEF b
<1>3. CASE c.conn \in c.open
  BY <1>1, <1>2, <1>3, ForgetEffect DEF Same
<1>4. CASE c.conn \notin c.open
  <2>1. c.open \ {c.conn} = c.open
    BY <1>4
  <2> QED
    BY <1>1, <1>2, <1>4, <2>1
<1> QED
  BY <1>3, <1>4

(* Whatever the callback does, it opens nothing; a timer is set only by one *)
(* who finds the client neither connecting nor connected.                   *)
LEMMA TellEffect ==
  ASSUME NEW c \in ClientType, NEW d \in TellClosed(c)
  PROVE  /\ d \in ClientType /\ Same(c, d) /\ d.idx = c.idx /\ d.fresh = c.fresh
         /\ d.open \subseteq c.open /\ d.sock \in {c.sock, None} /\ (c.failed => d.failed)
         /\ c.connecting => d.connecting /\ (d.timer => c.timer)
         /\ d.manual /\ c.sock = None /\ ~c.timer => d.sock = None /\ ~d.timer
         /\ d.connected => c.connected
         /\ c.open = {} => (d.connected <=> c.connected)
         /\ "nothing" \notin OnCloseDoes /\ ~c.connecting /\ ~c.connected =>
              d.manual \/ d.timer \/ d.failed
<1> DEFINE b == [c EXCEPT !.asked = FALSE]
<1>1. /\ b \in ClientType /\ Same(c, b) /\ b.idx = c.idx /\ b.fresh = c.fresh /\ b.open = c.open
      /\ b.sock = c.sock /\ b.failed = c.failed /\ b.connecting = c.connecting /\ b.timer = c.timer
      /\ b.manual = c.manual /\ b.connected = c.connected /\ b.conn = c.conn
  BY DEF ClientType, Same
<1>2. PICK does \in OnCloseDoes :
        d \in CASE does = "reconnect" -> Reconnect(b)
                [] does = "close" -> {Close(b)}
                [] does = "nothing" -> {b}
  BY DEF TellClosed
<1> HIDE DEF b
<1>3. does \in {"nothing", "reconnect", "close"}
  BY ClientAssumption
<1>4. CASE does = "reconnect"
  <2>1. d \in Reconnect(b)
    BY <1>2, <1>4
  <2> QED
    BY <1>1, <2>1, ReconnectEffect DEF Same
<1>5. CASE does = "close"
  <2>1. d = Close(b)
    BY <1>2, <1>5
  <2>2. /\ d \in ClientType /\ Same(b, d) /\ d.manual /\ d.sock = None /\ ~d.timer
        /\ d.idx = b.idx /\ d.connecting = b.connecting /\ d.open = b.open \ {b.conn}
        /\ d.connected <=> b.connected /\ b.conn \notin b.open
        /\ d.fresh = b.fresh /\ d.failed = b.failed
    BY <1>1, <2>1, CloseEffect
  <2>3. c.open = {} => b.conn \notin b.open
    BY <1>1
  <2> QED
    BY <1>1, <2>2, <2>3 DEF Same
<1>6. CASE does = "nothing"
  <2>1. d = b
    BY <1>2, <1>6
  <2> QED
    BY <1>1, <1>6, <2>1
<1> QED
  BY <1>3, <1>4, <1>5, <1>6

LEMMA DoneEffect ==
  ASSUME NEW c \in ClientType, NEW d \in OnConnectDone(c)
  PROVE  /\ d \in ClientType /\ Same(c, d) /\ ~d.connecting
         /\ d.idx = c.idx /\ d.manual = c.manual /\ d.connected = c.connected
         /\ d.timer = c.timer /\ d.sock = c.sock /\ d.failed = c.failed
         /\ c.ctx /\ ~c.manual => d.fresh /\ d.open = c.open \cup {d.conn}
<1>1. CASE d = [c EXCEPT !.connecting = FALSE] /\ (~c.ctx \/ c.manual)
  BY <1>1 DEF ClientType, Same
<1>2. CASE ~(~c.ctx \/ c.manual) /\ \E k \in Conns \ c.open :
             d = [c EXCEPT !.connecting = FALSE, !.conn = k, !.open = @ \cup {k}, !.fresh = TRUE]
  <2>1. PICK k \in Conns :
          d = [c EXCEPT !.connecting = FALSE, !.conn = k, !.open = c.open \cup {k}, !.fresh = TRUE]
    BY <1>2
  <2>2. c.open \cup {k} \in SUBSET Conns
    BY DEF ClientType
  <2> QED
    BY <1>2, <2>1, <2>2 DEF ClientType, Same
<1> QED
  BY <1>1, <1>2 DEF OnConnectDone

(* The outcomes of a round of attempts.                                     *)
At(c, j) == [CloseSock(c) EXCEPT !.idx = j]
UnderWay(c, d) ==
  \E k \in 0..(N - 1) : d = [c EXCEPT !.sock = [to |-> c.addrs, idx |-> k, st |-> "pending"]]

LEMMA TryCases ==
  ASSUME NEW c \in ClientType, NEW d \in TryConnectNext(c)
  PROVE  \/ ~c.ctx /\ d \in Exhausted(c)
         \/ c.ctx /\ c.manual /\ d = CloseSock(c)
         \/ /\ c.ctx /\ ~c.manual
            /\ \E j \in 0..N : \/ d \in Exhausted(At(c, j)) \/ d \in OnConnectDone(At(c, j))
                               \/ UnderWay(At(c, j), d)
<1>1. CASE ~c.ctx \/ c.manual
  BY <1>1 DEF TryConnectNext
<1>2. CASE c.ctx /\ ~c.manual
  <2> DEFINE b == CloseSock(c)
  <2>1. d \in TryAddresses(b) /\ b.idx = c.idx /\ c.idx \in Nat
    BY <1>2 DEF TryConnectNext, CloseSock, ClientType
  <2>2. PICK j \in b.idx..N :
          LET e == [b EXCEPT !.idx = j]
          IN d \in IF j = N THEN Exhausted(e)
                   ELSE {[e EXCEPT !.sock = [to |-> e.addrs, idx |-> j, st |-> "pending"]]}
                          \cup OnConnectDone(e)
    <3> HIDE DEF b
    <3> QED
      BY <2>1 DEF TryAddresses
  <2>3. j \in 0..N /\ At(c, j) = [b EXCEPT !.idx = j]
    BY <2>1, ClientAssumption DEF At
  <2> HIDE DEF b
  <2>4. CASE j = N
    BY <1>2, <2>2, <2>3, <2>4
  <2>5. CASE j # N
    <3>1. j \in 0..(N - 1)
      BY <2>3, <2>5, ClientAssumption
    <3> QED
      BY <1>2, <2>2, <2>3, <2>5, <3>1 DEF UnderWay
  <2> QED
    BY <2>4, <2>5
<1> QED
  BY <1>1, <1>2

LEMMA AtEffect ==
  ASSUME NEW c \in ClientType, NEW j \in 0..N
  PROVE  LET d == At(c, j) IN
         /\ d \in ClientType /\ Same(c, d) /\ d.idx = j /\ d.sock = None
         /\ d.manual = c.manual /\ d.connecting = c.connecting /\ d.connected = c.connected
         /\ d.timer = c.timer /\ d.open = c.open /\ d.fresh = c.fresh /\ d.failed = c.failed
<1>1. 0..N \subseteq Nat
  BY ClientAssumption
<1> DEFINE b == CloseSock(c)
<1>2. /\ b \in ClientType /\ Same(c, b) /\ b.sock = None
      /\ b.manual = c.manual /\ b.connecting = c.connecting /\ b.connected = c.connected
      /\ b.timer = c.timer /\ b.open = c.open /\ b.fresh = c.fresh /\ b.failed = c.failed
  BY DEF ClientType, CloseSock, Same
<1>3. At(c, j) = [b EXCEPT !.idx = j]
  BY DEF At
<1> HIDE DEF b
<1> QED
  BY <1>1, <1>2, <1>3 DEF ClientType, Same

LEMMA UnderWayEffect ==
  ASSUME NEW c \in ClientType, c.addrs # None, NEW d, UnderWay(c, d)
  PROVE  /\ d \in ClientType /\ Same(c, d) /\ d.idx = c.idx /\ d.sock # None
         /\ d.manual = c.manual /\ d.connecting = c.connecting /\ d.connected = c.connected
         /\ d.timer = c.timer /\ d.open = c.open /\ d.fresh = c.fresh /\ d.failed = c.failed
<1>1. PICK k \in 0..(N - 1) : d = [c EXCEPT !.sock = [to |-> c.addrs, idx |-> k, st |-> "pending"]]
  BY DEF UnderWay
<1>2. [to |-> c.addrs, idx |-> k, st |-> "pending"] \in Sockets
  BY DEF Sockets, ClientType
<1> QED
  BY <1>1, <1>2, ClientAssumption DEF ClientType, Same

LEMMA ExhaustedStart ==
  ASSUME NEW c \in ClientType
  PROVE  LET d == [c EXCEPT !.connecting = FALSE] IN
         /\ Exhausted(c) = TellClosed(d)
         /\ d \in ClientType /\ Same(c, d) /\ d.idx = c.idx /\ ~d.connecting
         /\ d.manual = c.manual /\ d.connected = c.connected /\ d.sock = c.sock
         /\ d.timer = c.timer /\ d.open = c.open /\ d.fresh = c.fresh /\ d.failed = c.failed
BY DEF Exhausted, ClientType, Same

-----------------------------------------------------------------------------
(* Types                                                                    *)

Sound(c) == c \in ClientType /\ c.idx <= N /\ (c.sock # None => c.addrs # None)

LEMMA ExhaustedType ==
  ASSUME NEW c \in ClientType, NEW d \in Exhausted(c)
  PROVE  d \in ClientType /\ Same(c, d) /\ d.idx = c.idx
<1> DEFINE b == [c EXCEPT !.connecting = FALSE]
<1>1. d \in TellClosed(b) /\ b \in ClientType /\ Same(c, b) /\ b.idx = c.idx
  BY ExhaustedStart
<1> HIDE DEF b
<1> QED
  BY <1>1, TellEffect DEF Same

LEMMA TryType ==
  ASSUME NEW c \in ClientType, c.addrs # None, c.idx <= N \/ (c.ctx /\ ~c.manual),
         NEW d \in TryConnectNext(c)
  PROVE  Sound(d) /\ Same(c, d)
<1>1. CASE ~c.ctx /\ d \in Exhausted(c)
  BY <1>1, ExhaustedType DEF Sound, Same
<1>2. CASE c.ctx /\ c.manual /\ d = CloseSock(c)
  BY <1>2 DEF Sound, Same, CloseSock, ClientType
<1>3. ASSUME NEW j \in 0..N,
             d \in Exhausted(At(c, j)) \/ d \in OnConnectDone(At(c, j)) \/ UnderWay(At(c, j), d)
      PROVE  Sound(d) /\ Same(c, d)
  <2>1. At(c, j) \in ClientType /\ Same(c, At(c, j)) /\ At(c, j).idx <= N
    BY AtEffect, ClientAssumption
  <2>2. d \in ClientType /\ Same(At(c, j), d) /\ d.idx = At(c, j).idx
    BY <1>3, <2>1, ExhaustedType, DoneEffect, UnderWayEffect DEF Same
  <2> QED
    BY <2>1, <2>2 DEF Sound, Same
<1> QED
  BY <1>1, <1>2, <1>3, TryCases

LEMMA TellType ==
  ASSUME NEW c, Sound(c), NEW d \in TellClosed(c)
  PROVE  Sound(d) /\ Same(c, d)
BY TellEffect DEF Sound, Same

LEMMA ReconnectType ==
  ASSUME NEW c, Sound(c), NEW d \in Reconnect(c)
  PROVE  Sound(d) /\ Same(c, d)
BY ReconnectEffect DEF Sound, Same

LEMMA InUnion ==
  ASSUME NEW S, NEW e, NEW d, d \in UNION {e : x \in S}
  PROVE  d \in e
OBVIOUS

(* What an answered resolution leads to.                                    *)
LEMMA ResolvedCases ==
  ASSUME NEW c \in ClientType, NEW h \in Hosts, NEW d \in Resolved(c, h)
  PROVE  \/ d \in TellClosed([c EXCEPT !.failed = TRUE])
         \/ d \in TryConnectNext([c EXCEPT !.addrs = h, !.idx = 0])
<1> DEFINE e == Unresolved(c)
           f == TryConnectNext([c EXCEPT !.addrs = h, !.idx = 0])
           u == UNION {e : x \in Failures \cap {"dns"}}
<1>1. Resolved(c, h) = u \cup f
  BY DEF Resolved
<1>2. d \in u \/ d \in f
  <2> HIDE DEF u, f
  <2> QED
    BY <1>1
<1>3. d \in u => d \in e
  <2> HIDE DEF e
  <2> QED
    BY InUnion
<1> QED
  BY <1>2, <1>3 DEF Unresolved

LEMMA ResolvedType ==
  ASSUME NEW c, Sound(c), NEW h \in Hosts, NEW d \in Resolved(c, h)
  PROVE  Sound(d) /\ d.host = c.host /\ d.doubled = c.doubled
<1> DEFINE e == [c EXCEPT !.failed = TRUE]
           f == [c EXCEPT !.addrs = h, !.idx = 0]
<1>1. Sound(e) /\ e.host = c.host /\ e.doubled = c.doubled
  BY DEF Sound, ClientType
<1>2. f \in ClientType /\ f.addrs # None /\ f.idx <= N /\ f.host = c.host /\ f.doubled = c.doubled
  <2>1. 0 <= N /\ h # None /\ 0 \in Nat
    BY ClientAssumption
  <2> QED
    BY <2>1 DEF Sound, ClientType
<1>3. d \in TellClosed(e) \/ d \in TryConnectNext(f)
  BY ResolvedCases DEF Sound
<1> HIDE DEF e, f
<1> QED
  BY <1>1, <1>2, <1>3, TellType, TryType DEF Same

(* What a thread leaves behind, of a handler's result c.                    *)
LeftBy(t, c) ==
  /\ s'.host = c.host /\ s'.addrs = c.addrs /\ s'.ctx = c.ctx /\ s'.idx = c.idx
  /\ s'.raced = (c.raced \/ (t = Loop /\ Midway)) /\ s'.manual = c.manual
  /\ s'.connecting = c.connecting /\ s'.timer = c.timer /\ s'.sock = c.sock
  /\ s'.conn = c.conn /\ s'.open = c.open /\ s'.failed = c.failed /\ ~s'.fresh /\ s'.doubled = c.doubled
  /\ IF c.fresh /\ t = Loop THEN s'.connected ELSE s'.connected = c.connected
  /\ th' = [th EXCEPT ![t] = IF c.fresh /\ t # Loop THEN Started ELSE Idle]

LEMMA LeavesEffect ==
  ASSUME NEW t \in Threads, NEW R \in SUBSET ClientType, Leaves(t, R)
  PROVE  s' \in ClientType /\ \E c \in R : LeftBy(t, c)
<1>1. PICK c \in R :
        LET d == [c EXCEPT !.fresh = FALSE, !.raced = @ \/ (t = Loop /\ Midway)]
        IN  /\ s' = IF c.fresh /\ t = Loop THEN Announce(d) ELSE d
            /\ th' = [th EXCEPT ![t] = IF c.fresh /\ t # Loop THEN Started ELSE Idle]
  BY DEF Leaves
<1> DEFINE x == c.raced \/ (t = Loop /\ Midway)
           d == [c EXCEPT !.fresh = FALSE, !.raced = x]
<1>2. c \in ClientType /\ x \in BOOLEAN
  BY DEF ClientType
<1>3. /\ s' = IF c.fresh /\ t = Loop THEN Announce(d) ELSE d
      /\ th' = [th EXCEPT ![t] = IF c.fresh /\ t # Loop THEN Started ELSE Idle]
  BY <1>1
<1>4. s' \in ClientType /\ s'.raced = x /\ LeftBy(t, c)
  <2> HIDE DEF x
  <2>1. /\ d \in ClientType /\ d.raced = x /\ ~d.fresh
        /\ d.host = c.host /\ d.addrs = c.addrs /\ d.ctx = c.ctx /\ d.idx = c.idx
        /\ d.manual = c.manual /\ d.connecting = c.connecting /\ d.timer = c.timer
        /\ d.connected = c.connected
        /\ d.sock = c.sock /\ d.conn = c.conn /\ d.open = c.open /\ d.failed = c.failed /\ d.doubled = c.doubled
    BY <1>2 DEF ClientType
  <2> HIDE DEF d
  <2>2. /\ s' \in ClientType /\ s'.raced = d.raced /\ ~s'.fresh
        /\ s'.host = d.host /\ s'.addrs = d.addrs /\ s'.ctx = d.ctx /\ s'.idx = d.idx
        /\ s'.manual = d.manual /\ s'.connecting = d.connecting /\ s'.timer = d.timer
        /\ s'.sock = d.sock /\ s'.conn = d.conn /\ s'.open = d.open /\ s'.failed = d.failed /\ s'.doubled = d.doubled
        /\ IF c.fresh /\ t = Loop THEN s'.connected ELSE s'.connected = d.connected
    <3>1. CASE c.fresh /\ t = Loop
      BY <1>3, <2>1, <3>1 DEF ClientType, Announce
    <3>2. CASE ~(c.fresh /\ t = Loop)
      BY <1>3, <2>1, <3>2
    <3> QED
      BY <3>1, <3>2
  <2>3. LeftBy(t, c)
    BY <1>3, <2>1, <2>2 DEF LeftBy, x
  <2> QED
    BY <2>1, <2>2, <2>3
<1> QED
  BY <1>4

(* A client that nobody has asked for a host has done nothing.              *)
Unborn == s.host = None => ~s.timer /\ s.open = {} /\ s.addrs = None /\ \A t \in Threads : th[t] = Idle
TypeInv == TypeOK /\ Sound(s) /\ Unborn

(* Once two connections have been open, that is remembered.                 *)
Remembers == s.doubled => s'.doubled

LEMMA LeavesType ==
  ASSUME TypeInv, NEW t \in Threads, NEW R, Leaves(t, R),
         \A c \in R : Sound(c) /\ c.host # None /\ (s.doubled => c.doubled), calls' \in 0..MaxCalls
  PROVE  TypeInv' /\ Remembers
<1>1. R \in SUBSET ClientType
  BY DEF Sound
<1>2. PICK c \in R : LeftBy(t, c)
  BY <1>1, LeavesEffect
<1>3. s' \in ClientType
  BY <1>1, LeavesEffect
<1>4. s'.idx <= N /\ ~s'.fresh /\ (s'.sock # None => s'.addrs # None) /\ s'.host # None
      /\ Remembers
  BY <1>2 DEF LeftBy, Sound, Remembers
<1>5. th' \in [Threads -> {Idle, Started} \cup {Resolving(h) : h \in Hosts}]
  BY <1>2 DEF LeftBy, TypeInv, TypeOK
<1> QED
  BY <1>3, <1>4, <1>5 DEF TypeInv, TypeOK, Sound, Unborn

(* Connect begins by calling off what is under way.                         *)
Asked(h) == CloseSock(CancelTimer([s EXCEPT !.manual = FALSE, !.connecting = TRUE,
                                            !.host = h, !.asked = TRUE, !.failed = FALSE,
                                            !.doubled = @ \/ s.open # {}]))

LEMMA AskedEffect ==
  ASSUME s \in ClientType, NEW h \in Hosts
  PROVE  LET d == Asked(h) IN
         /\ d \in ClientType /\ ~d.manual /\ d.connecting /\ d.host = h /\ ~d.failed
         /\ ~d.timer /\ d.sock = None /\ d.addrs = s.addrs /\ d.idx = s.idx /\ d.ctx = s.ctx
         /\ d.raced = s.raced /\ d.connected = s.connected /\ d.open = s.open
         /\ d.conn = s.conn /\ d.fresh = s.fresh /\ d.doubled = (s.doubled \/ s.open # {})
BY DEF Asked, ClientType, CloseSock, CancelTimer

LEMMA IdxEffect ==
  ASSUME NEW c \in ClientType, NEW i \in Nat
  PROVE  LET d == [c EXCEPT !.idx = i] IN
         /\ d \in ClientType /\ Same(c, d) /\ d.idx = i /\ d.sock = c.sock
         /\ d.manual = c.manual /\ d.connecting = c.connecting /\ d.connected = c.connected
         /\ d.timer = c.timer /\ d.open = c.open /\ d.conn = c.conn /\ d.fresh = c.fresh
         /\ d.failed = c.failed
BY DEF ClientType, Same

LEMMA ConnectCases ==
  ASSUME NEW t \in Threads, NEW h \in Hosts, ConnectOn(t, h)
  PROVE  /\ th[t] = Idle /\ s.ctx
         /\ \/ s' = [Asked(h) EXCEPT !.idx = 0] /\ th' = [th EXCEPT ![t] = Resolving(h)]
            \/ Asked(h).addrs # None /\ Leaves(t, TryConnectNext([Asked(h) EXCEPT !.idx = 0]))
BY DEF ConnectOn, Asked

LEMMA ConnectType ==
  ASSUME TypeInv, NEW t \in Threads, NEW h \in Hosts, ConnectOn(t, h), calls' \in 0..MaxCalls
  PROVE  TypeInv' /\ Remembers
<1> DEFINE a == Asked(h)
           c == [a EXCEPT !.idx = 0]
<1>1. a \in ClientType /\ a.host = h /\ a.sock = None /\ a.fresh = s.fresh
      /\ a.doubled = (s.doubled \/ s.open # {})
  BY AskedEffect DEF TypeInv, TypeOK
<1> HIDE DEF a
<1>2. c \in ClientType /\ c.host = h /\ c.sock = None /\ c.idx = 0 /\ c.addrs = a.addrs /\ c.fresh = a.fresh
      /\ c.doubled = a.doubled
  BY <1>1, IdxEffect DEF Same
<1>3. h # None /\ 0 <= N
  BY ClientAssumption
<1> HIDE DEF c
<1>4. CASE s' = c /\ th' = [th EXCEPT ![t] = Resolving(h)]
  <2>1. th' \in [Threads -> {Idle, Started} \cup {Resolving(g) : g \in Hosts}]
    BY <1>4 DEF TypeInv, TypeOK
  <2> QED
    BY <1>1, <1>2, <1>3, <1>4, <2>1 DEF TypeInv, TypeOK, Sound, Unborn, Remembers
<1>5. CASE a.addrs # None /\ Leaves(t, TryConnectNext(c))
  <2>1. \A d \in TryConnectNext(c) : Sound(d) /\ d.host # None /\ (s.doubled => d.doubled)
    BY <1>1, <1>2, <1>3, <1>5, TryType DEF Same
  <2> QED
    BY <1>5, <2>1, LeavesType
<1> QED
  BY <1>4, <1>5, ConnectCases DEF a, c

(* What the timer leaves, once it has been read.                            *)
Rung == CancelTimer([s EXCEPT !.connecting = FALSE])

LEMMA RungEffect ==
  ASSUME s \in ClientType
  PROVE  LET d == Rung IN
         /\ d \in ClientType /\ Same(s, d) /\ ~d.timer /\ ~d.connecting /\ d.sock = s.sock
         /\ d.idx = s.idx /\ d.manual = s.manual /\ d.connected = s.connected
         /\ d.open = s.open /\ d.conn = s.conn /\ d.fresh = s.fresh /\ d.failed = s.failed
BY DEF Rung, ClientType, CancelTimer, Same

LEMMA TimerCases ==
  ASSUME OnTimer
  PROVE  /\ th[Loop] = Idle /\ s.ctx /\ s.timer /\ calls' = calls
         /\ \/ Rung.manual /\ Leaves(Loop, {Rung})
            \/ /\ ~Rung.manual /\ Rung.addrs # None
               /\ Leaves(Loop, TryConnectNext([Rung EXCEPT !.idx = 0]))
            \/ /\ ~Rung.manual /\ Rung.addrs = None /\ s' = Rung
               /\ \E t \in Resolvers :
                    th[t] = Idle /\ th' = [th EXCEPT ![t] = Resolving(Rung.host)]
<1> DEFINE c == Rung
<1>1. /\ th[Loop] = Idle /\ s.ctx /\ s.timer /\ calls' = calls
      /\ IF c.manual \/ c.addrs # None
         THEN Leaves(Loop, IF c.manual THEN {c} ELSE TryConnectNext([c EXCEPT !.idx = 0]))
         ELSE /\ s' = c
              /\ \E t \in Resolvers : th[t] = Idle /\ th' = [th EXCEPT ![t] = Resolving(c.host)]
  BY DEF OnTimer, Rung
<1> HIDE DEF c
<1>2. CASE c.manual
  <2>1. (IF c.manual THEN {c} ELSE TryConnectNext([c EXCEPT !.idx = 0])) = {c}
    BY <1>2
  <2>2. Leaves(Loop, {c})
    BY <1>1, <1>2, <2>1
  <2> QED
    BY <1>1, <1>2, <2>2 DEF c
<1>3. CASE ~c.manual /\ c.addrs # None
  <2>1. (IF c.manual THEN {c} ELSE TryConnectNext([c EXCEPT !.idx = 0])) =
          TryConnectNext([c EXCEPT !.idx = 0])
    BY <1>3
  <2>2. Leaves(Loop, TryConnectNext([c EXCEPT !.idx = 0]))
    BY <1>1, <1>3, <2>1
  <2> QED
    BY <1>1, <1>3, <2>2 DEF c
<1>4. CASE ~c.manual /\ c.addrs = None
  BY <1>1, <1>4 DEF c
<1> QED
  BY <1>2, <1>3, <1>4

LEMMA EventCases ==
  ASSUME OnConnectEvent
  PROVE  /\ th[Loop] = Idle /\ s.ctx /\ s.sock # None /\ calls' = calls
         /\ \/ s.manual /\ Leaves(Loop, {[CloseSock(s) EXCEPT !.connecting = FALSE]})
            \/ /\ ~CloseSock(s).manual
               /\ Leaves(Loop, TryConnectNext([CloseSock(s) EXCEPT !.idx = @ + 1]))
            \/ ~CloseSock(s).manual /\ Leaves(Loop, OnConnectDone(CloseSock(s)))
<1> DEFINE c == CloseSock(s)
<1>0. c.manual = s.manual
  BY DEF CloseSock
<1>1. /\ th[Loop] = Idle /\ s.ctx /\ s.sock # None /\ calls' = calls
      /\ Leaves(Loop,
            IF c.manual THEN {[c EXCEPT !.connecting = FALSE]}
            ELSE IF s.sock.st = "refused" THEN TryConnectNext([c EXCEPT !.idx = @ + 1])
            ELSE OnConnectDone(c))
  BY DEF OnConnectEvent
<1> DEFINE x == {[c EXCEPT !.connecting = FALSE]}
           y == TryConnectNext([c EXCEPT !.idx = @ + 1])
           z == OnConnectDone(c)
           m == c.manual
<1>2. Leaves(Loop, IF m THEN x ELSE IF s.sock.st = "refused" THEN y ELSE z)
  BY <1>1
<1>3. \/ m /\ Leaves(Loop, x)
      \/ ~m /\ Leaves(Loop, y)
      \/ ~m /\ Leaves(Loop, z)
  <2> HIDE DEF x, y, z, m
  <2>1. CASE m
    <3>1. (IF m THEN x ELSE IF s.sock.st = "refused" THEN y ELSE z) = x
      BY <2>1
    <3> QED
      BY <1>2, <2>1, <3>1
  <2>2. CASE ~m /\ s.sock.st = "refused"
    <3>1. (IF m THEN x ELSE IF s.sock.st = "refused" THEN y ELSE z) = y
      BY <2>2
    <3> QED
      BY <1>2, <2>2, <3>1
  <2>3. CASE ~m /\ s.sock.st # "refused"
    <3>1. (IF m THEN x ELSE IF s.sock.st = "refused" THEN y ELSE z) = z
      BY <2>3
    <3> QED
      BY <1>2, <2>3, <3>1
  <2> QED
    BY <2>1, <2>2, <2>3
<1> QED
  BY <1>0, <1>1, <1>3

LEMMA LostCases ==
  ASSUME NEW k \in Conns, ConnLost(k)
  PROVE  /\ th[Loop] = Idle /\ s.ctx /\ k \in s.open /\ calls' = calls
         /\ \/ Forget(s, k).manual /\ Leaves(Loop, {Forget(s, k)})
            \/ ~Forget(s, k).manual /\ Leaves(Loop, TellClosed(Forget(s, k)))
<1> DEFINE c == Forget(s, k)
           r == IF c.manual THEN {c} ELSE TellClosed(c)
<1>1. /\ th[Loop] = Idle /\ s.ctx /\ k \in s.open /\ calls' = calls /\ Leaves(Loop, r)
  BY DEF ConnLost
<1>2. (c.manual => r = {c}) /\ (~c.manual => r = TellClosed(c))
  <2> HIDE DEF c
  <2> QED
    OBVIOUS
<1> HIDE DEF r
<1>3. CASE c.manual
  BY <1>1, <1>2, <1>3
<1>4. CASE ~c.manual
  BY <1>1, <1>2, <1>4
<1> QED
  BY <1>3, <1>4

LEMMA AppCases ==
  ASSUME AppCall, calls \in 0..MaxCalls
  PROVE  /\ th[Loop] = Idle /\ s.host # None /\ calls' \in 0..MaxCalls
         /\ \/ Leaves(Loop, {Close(s)})
            \/ "reconnect" \in AppCalls /\ Leaves(Loop, Reconnect(s))
            \/ /\ \A t \in Threads : th[t] = Idle
               /\ \E h \in Hosts : ConnectOn(Loop, h)
BY ClientAssumption DEF AppCall

LEMMA TypeStarts == Init => TypeInv
<1> SUFFICES ASSUME Init PROVE TypeInv
  OBVIOUS
<1>1. s \in ClientType /\ s.idx = 0 /\ ~s.fresh /\ s.sock = None /\ ~s.timer /\ s.open = {} /\ s.addrs = None
  BY DEF Init, ClientType
<1>2. 0 <= N /\ 0 \in 0..MaxCalls
  BY ClientAssumption
<1>3. th = [t \in Threads |-> Idle] /\ calls = 0
  BY DEF Init
<1> QED
  BY <1>1, <1>2, <1>3 DEF TypeInv, TypeOK, Sound, Unborn

LEMMA TypeKept == TypeInv /\ [Next]_vars => TypeInv' /\ Remembers
<1> SUFFICES ASSUME TypeInv, [Next]_vars PROVE TypeInv' /\ Remembers
  OBVIOUS
<1>0. /\ s \in ClientType /\ Sound(s) /\ ~s.fresh /\ calls \in 0..MaxCalls /\ Loop \in Threads
      /\ Dialer \in Threads /\ th \in [Threads -> {Idle, Started} \cup {Resolving(h) : h \in Hosts}]
  BY DEF TypeInv, TypeOK, Threads
<1>1. CASE Dial
  BY <1>0, <1>1, ConnectType DEF Dial
<1>2. CASE AppCall
  <2>1. /\ s.host # None /\ calls' \in 0..MaxCalls
        /\ \/ Leaves(Loop, {Close(s)})
           \/ Leaves(Loop, Reconnect(s))
           \/ \E h \in Hosts : ConnectOn(Loop, h)
    BY <1>0, <1>2, AppCases
  <2>2. CASE Leaves(Loop, {Close(s)})
    <3>1. \A c \in {Close(s)} : Sound(c) /\ c.host # None /\ (s.doubled => c.doubled)
      BY <1>0, <2>1, CloseEffect DEF Sound, Same
    <3> QED
      BY <1>0, <2>1, <2>2, <3>1, LeavesType
  <2>3. CASE Leaves(Loop, Reconnect(s))
    <3>1. \A c \in Reconnect(s) : Sound(c) /\ c.host # None /\ (s.doubled => c.doubled)
      BY <1>0, <2>1, ReconnectType DEF Same
    <3> QED
      BY <1>0, <2>1, <2>3, <3>1, LeavesType
  <2>4. CASE \E h \in Hosts : ConnectOn(Loop, h)
    BY <1>0, <2>1, <2>4, ConnectType
  <2> QED
    BY <2>1, <2>2, <2>3, <2>4
<1>3. CASE OnTimer
  <2>1. /\ s.timer /\ calls' = calls
        /\ \/ Rung.manual /\ Leaves(Loop, {Rung})
           \/ /\ ~Rung.manual /\ Rung.addrs # None
              /\ Leaves(Loop, TryConnectNext([Rung EXCEPT !.idx = 0]))
           \/ /\ s' = Rung
              /\ \E t \in Resolvers : th' = [th EXCEPT ![t] = Resolving(Rung.host)]
    BY <1>3, TimerCases
  <2>2. /\ Rung \in ClientType /\ Same(s, Rung) /\ Rung.sock = s.sock /\ Rung.idx = s.idx
        /\ Rung.fresh = s.fresh
    BY <1>0, RungEffect
  <2>3. Rung.host # None /\ Rung.host \in Hosts /\ Sound(Rung) /\ Rung.doubled = s.doubled
    BY <1>0, <2>1, <2>2 DEF TypeInv, Unborn, Sound, Same, ClientType
  <2>4. CASE Leaves(Loop, {Rung})
    BY <1>0, <2>1, <2>3, <2>4, LeavesType
  <2>5. CASE Rung.addrs # None /\ Leaves(Loop, TryConnectNext([Rung EXCEPT !.idx = 0]))
    <3> DEFINE c == [Rung EXCEPT !.idx = 0]
    <3>1. c \in ClientType /\ Same(Rung, c) /\ c.idx = 0 /\ 0 <= N
      BY <2>2, IdxEffect, ClientAssumption
    <3> HIDE DEF c
    <3>2. \A d \in TryConnectNext(c) : Sound(d) /\ d.host # None /\ (s.doubled => d.doubled)
      BY <2>3, <2>5, <3>1, TryType DEF Same
    <3>3. Leaves(Loop, TryConnectNext(c))
      BY <2>5 DEF c
    <3> QED
      BY <1>0, <2>1, <3>2, <3>3, LeavesType
  <2>6. CASE s' = Rung /\ \E t \in Resolvers : th' = [th EXCEPT ![t] = Resolving(Rung.host)]
    <3>1. th' \in [Threads -> {Idle, Started} \cup {Resolving(h) : h \in Hosts}]
      BY <1>0, <2>3, <2>6
    <3> QED
      BY <1>0, <2>1, <2>2, <2>3, <2>6, <3>1 DEF TypeInv, TypeOK, Sound, Unborn, Remembers
  <2> QED
    BY <2>1, <2>4, <2>5, <2>6
<1>4. CASE OnConnectEvent
  <2> DEFINE c == CloseSock(s)
             x == [c EXCEPT !.connecting = FALSE]
             y == [c EXCEPT !.idx = @ + 1]
  <2>1. /\ s.ctx /\ s.sock # None /\ calls' = calls
        /\ \/ Leaves(Loop, {x})
           \/ ~c.manual /\ Leaves(Loop, TryConnectNext(y))
           \/ Leaves(Loop, OnConnectDone(c))
    BY <1>4, EventCases
  <2>2. s.addrs # None /\ s.host # None
    BY <1>0, <2>1 DEF TypeInv, Unborn, Sound
  <2>3. c \in ClientType /\ Same(s, c) /\ c.idx = s.idx /\ c.sock = None
    BY <1>0 DEF ClientType, CloseSock, Same
  <2> HIDE DEF c
  <2>4. x \in ClientType /\ Same(c, x) /\ x.idx = c.idx /\ x.sock = c.sock
    BY <2>3 DEF ClientType, Same
  <2>5. y \in ClientType /\ Same(c, y) /\ y.manual = c.manual
    <3>1. y = [c EXCEPT !.idx = c.idx + 1] /\ c.idx + 1 \in Nat
      BY <2>3 DEF ClientType
    <3> QED
      BY <2>3, <3>1, IdxEffect
  <2> HIDE DEF x, y
  <2>6. CASE Leaves(Loop, {x})
    <3>1. \A d \in {x} : Sound(d) /\ d.host # None /\ (s.doubled => d.doubled)
      BY <1>0, <2>2, <2>3, <2>4 DEF Sound, Same
    <3> QED
      BY <1>0, <2>1, <2>6, <3>1, LeavesType
  <2>7. CASE ~c.manual /\ Leaves(Loop, TryConnectNext(y))
    <3>1. \A d \in TryConnectNext(y) : Sound(d) /\ Same(y, d)
      BY <2>1, <2>2, <2>3, <2>5, <2>7, TryType DEF Same
    <3>2. \A d \in TryConnectNext(y) : Sound(d) /\ d.host # None /\ (s.doubled => d.doubled)
      BY <2>2, <2>3, <2>5, <3>1 DEF Same
    <3> QED
      BY <1>0, <2>1, <2>7, <3>2, LeavesType
  <2>8. CASE Leaves(Loop, OnConnectDone(c))
    <3>1. \A d \in OnConnectDone(c) : Sound(d) /\ d.host # None /\ (s.doubled => d.doubled)
      BY <1>0, <2>2, <2>3, DoneEffect DEF Sound, Same
    <3> QED
      BY <1>0, <2>1, <2>8, <3>1, LeavesType
  <2> QED
    BY <2>1, <2>6, <2>7, <2>8
<1>5. ASSUME NEW k \in Conns, ConnLost(k) PROVE TypeInv' /\ Remembers
  <2> DEFINE c == Forget(s, k)
  <2>1. /\ k \in s.open /\ calls' = calls
        /\ Leaves(Loop, {c}) \/ Leaves(Loop, TellClosed(c))
    BY <1>5, LostCases
  <2>2. Sound(c) /\ c.host = s.host /\ s.host # None /\ c.doubled = s.doubled
    BY <1>0, <2>1, ForgetEffect DEF TypeInv, Unborn, Sound, Same
  <2> HIDE DEF c
  <2>3. \A d \in {c} \cup TellClosed(c) : Sound(d) /\ d.host # None /\ (s.doubled => d.doubled)
    BY <2>2, TellType DEF Same
  <2> QED
    BY <1>0, <2>1, <2>3, LeavesType
<1>6. ASSUME NEW t \in Threads, ResolveDone(t) PROVE TypeInv' /\ Remembers
  <2>1. PICK h \in Hosts : th[t] = Resolving(h) /\ Leaves(t, Resolved(s, h)) /\ calls' = calls
    BY <1>6 DEF ResolveDone
  <2>2. s.host # None
    BY <2>1 DEF TypeInv, Unborn, Resolving, Idle
  <2>3. \A d \in Resolved(s, h) : Sound(d) /\ d.host # None /\ (s.doubled => d.doubled)
    BY <1>0, <2>2, ResolvedType
  <2> QED
    BY <1>0, <2>1, <2>3, LeavesType
<1>7. ASSUME NEW t \in Threads, AnnounceOn(t) PROVE TypeInv' /\ Remembers
  <2>1. s' = Announce(s) /\ th' = [th EXCEPT ![t] = Idle] /\ th[t] = Started /\ calls' = calls
    BY <1>7 DEF AnnounceOn
  <2>2. /\ s' \in ClientType /\ s'.idx = s.idx /\ ~s'.fresh /\ s'.sock = s.sock
        /\ s'.addrs = s.addrs /\ s'.host = s.host /\ s'.doubled = s.doubled
    BY <1>0, <2>1 DEF Announce, ClientType
  <2>3. s.host # None
    BY <2>1 DEF TypeInv, Unborn, Started, Idle
  <2> QED
    BY <1>0, <2>1, <2>2, <2>3 DEF TypeInv, TypeOK, Sound, Unborn, Remembers
<1>8. CASE Answer
  <2>1. PICK st \in {"up", "refused"} : s' = [s EXCEPT !.sock.st = st]
    BY <1>8 DEF Answer
  <2>2. s.sock # None /\ s.sock \in Sockets /\ UNCHANGED <<th, calls>>
    BY <1>0, <1>8 DEF Answer, ClientType
  <2>3. [s.sock EXCEPT !.st = st] \in Sockets
    BY <2>2 DEF Sockets
  <2>4. /\ s' \in ClientType /\ s'.idx = s.idx /\ ~s'.fresh /\ s'.addrs = s.addrs
        /\ s'.host = s.host /\ s'.doubled = s.doubled
    BY <1>0, <2>1, <2>3 DEF ClientType
  <2>5. s.addrs # None /\ s.host # None
    BY <2>2 DEF TypeInv, Sound, Unborn
  <2> QED
    BY <1>0, <2>2, <2>4, <2>5 DEF TypeInv, TypeOK, Sound, Unborn, Remembers
<1>9. CASE ContextGone
  <2>1. s' = [s EXCEPT !.ctx = FALSE] /\ UNCHANGED <<th, calls>>
    BY <1>9 DEF ContextGone
  <2>2. /\ s' \in ClientType /\ s'.idx = s.idx /\ ~s'.fresh /\ s'.addrs = s.addrs
        /\ s'.doubled = s.doubled /\ s'.host = s.host /\ s'.sock = s.sock /\ s'.timer = s.timer /\ s'.open = s.open
    BY <1>0, <2>1 DEF ClientType
  <2> QED
    BY <1>0, <2>1, <2>2 DEF TypeInv, TypeOK, Sound, Unborn, Remembers
<1>10. CASE UNCHANGED vars
  BY <1>10 DEF vars, TypeInv, TypeOK, Sound, Unborn, Remembers
<1> QED
  BY <1>1, <1>2, <1>3, <1>4, <1>5, <1>6, <1>7, <1>8, <1>9, <1>10 DEF Next, LoopStep, ThreadStep

LEMMA TypeAlways == Spec => []TypeInv
BY TypeStarts, TypeKept, PTL DEF Spec

(* THEOREM.  The client's fields, the sockets and connections they refer to *)
(* and the threads' places keep their type, whatever is called and fails.   *)
THEOREM TypeCorrect == Spec => []TypeOK
BY TypeAlways, PTL DEF TypeInv

-----------------------------------------------------------------------------
(* One thing at a time                                                      *)

(* A connection, an attempt and a timer exclude one another; a client that  *)
(* is closed or has no addresses has none of them.                          *)
Apart(c) ==
  /\ c.open \subseteq {c.conn}
  /\ c.open # {} => c.sock = None /\ ~c.timer /\ ~c.connecting
  /\ c.sock # None => ~c.timer
  /\ c.manual \/ c.addrs = None => Rest(c)
  /\ c.host # None /\ c.addrs = None => c.connecting

(* The user's OnClose callback asks for a reconnection or closes.           *)
Persists == "nothing" \notin OnCloseDoes

(* From a client at rest, a handler makes at most one of the three; and one *)
(* of them, if the user is to reconnect and nothing has failed.             *)
Ready(c) == c \in ClientType /\ Rest(c) /\ ~c.fresh /\ c.host # None
Becomes(c, d) ==
  /\ d \in ClientType /\ Apart(d) /\ d.ctx = c.ctx /\ d.raced = c.raced
  /\ d.fresh <=> d.open # {}
  /\ d.connected <=> c.connected
  /\ Persists => c.connected \/ ~c.ctx \/ d.manual \/ d.failed \/ ~Rest(d)

LEMMA TellBecomes ==
  ASSUME NEW c, Ready(c), c.addrs = None => c.connecting, ~c.connecting \/ c.failed,
         NEW d \in TellClosed(c)
  PROVE  Becomes(c, d)
<1>1. /\ d \in ClientType /\ Same(c, d) /\ ~d.fresh /\ d.open = {} /\ d.sock = None
      /\ (d.connected <=> c.connected) /\ (c.failed => d.failed)
  BY TellEffect DEF Ready, Rest
<1>2. c.connecting => d.connecting /\ ~d.timer
  BY TellEffect DEF Ready, Rest
<1>3. d.manual => ~d.timer
  BY TellEffect DEF Ready, Rest
<1>4. Persists /\ ~c.connecting /\ ~c.connected => d.manual \/ d.timer \/ d.failed
  BY TellEffect DEF Ready, Persists
<1>5. Apart(d)
  BY <1>1, <1>2, <1>3 DEF Apart, Rest, Same
<1>6. Persists => c.connected \/ ~c.ctx \/ d.manual \/ d.failed \/ ~Rest(d)
  BY <1>1, <1>4 DEF Rest
<1> QED
  BY <1>1, <1>5, <1>6 DEF Becomes, Same

LEMMA ExhaustedBecomes ==
  ASSUME NEW c, Ready(c), c.addrs # None, NEW d \in Exhausted(c)
  PROVE  Becomes(c, d)
<1> DEFINE b == [c EXCEPT !.connecting = FALSE]
<1>1. /\ d \in TellClosed(b) /\ Ready(b) /\ Same(c, b) /\ ~b.connecting /\ b.addrs # None
      /\ b.connected = c.connected
  BY ExhaustedStart DEF Ready, Rest, Same
<1> HIDE DEF b
<1>2. Becomes(b, d)
  BY <1>1, TellBecomes
<1> QED
  BY <1>1, <1>2 DEF Becomes, Same

LEMMA DoneBecomes ==
  ASSUME NEW c, Ready(c), c.ctx, ~c.manual, c.addrs # None, NEW d \in OnConnectDone(c)
  PROVE  Becomes(c, d)
<1>1. /\ d \in ClientType /\ Same(c, d) /\ ~d.connecting /\ ~d.manual /\ d.connected = c.connected
      /\ ~d.timer /\ d.sock = None /\ d.fresh /\ d.open = {d.conn}
  BY DoneEffect DEF Ready, Rest
<1> QED
  BY <1>1 DEF Becomes, Apart, Rest, Same

LEMMA UnderWayBecomes ==
  ASSUME NEW c, Ready(c), ~c.manual, c.addrs # None, NEW d, UnderWay(c, d)
  PROVE  Becomes(c, d)
<1>1. /\ d \in ClientType /\ Same(c, d) /\ ~d.manual /\ d.connected = c.connected
      /\ ~d.timer /\ d.sock # None /\ ~d.fresh /\ d.open = {}
  BY UnderWayEffect DEF Ready, Rest
<1> QED
  BY <1>1 DEF Becomes, Apart, Rest, Same

LEMMA TryBecomes ==
  ASSUME NEW c, Ready(c), c.addrs # None, NEW d \in TryConnectNext(c)
  PROVE  Becomes(c, d)
<1>0. c \in ClientType
  BY DEF Ready
<1>1. CASE ~c.ctx /\ d \in Exhausted(c)
  BY <1>1, ExhaustedBecomes
<1>2. CASE c.ctx /\ c.manual /\ d = CloseSock(c)
  <2>1. d = c
    BY <1>0, <1>2 DEF CloseSock, Ready, Rest, ClientType
  <2> QED
    BY <1>2, <2>1 DEF Becomes, Ready, Rest, Apart
<1>3. ASSUME c.ctx, ~c.manual, NEW j \in 0..N,
             d \in Exhausted(At(c, j)) \/ d \in OnConnectDone(At(c, j)) \/ UnderWay(At(c, j), d)
      PROVE  Becomes(c, d)
  <2> DEFINE b == At(c, j)
  <2>1. /\ b \in ClientType /\ Same(c, b) /\ b.sock = None
        /\ b.manual = c.manual /\ b.connected = c.connected
        /\ b.timer = c.timer /\ b.open = c.open /\ b.fresh = c.fresh
    BY <1>0, AtEffect
  <2>2. d \in Exhausted(b) \/ d \in OnConnectDone(b) \/ UnderWay(b, d)
    BY <1>3
  <2> HIDE DEF b
  <2>3. Ready(b)
    BY <2>1 DEF Ready, Rest, Same
  <2>4. b.ctx /\ ~b.manual /\ b.addrs # None
    BY <1>3, <2>1 DEF Same
  <2>5. Becomes(b, d)
    BY <2>2, <2>3, <2>4, ExhaustedBecomes, DoneBecomes, UnderWayBecomes
  <2> QED
    BY <2>1, <2>5 DEF Becomes, Same
<1> QED
  BY <1>0, <1>1, <1>2, <1>3, TryCases

LEMMA ResolvedBecomes ==
  ASSUME NEW c, Ready(c), c.addrs = None => c.connecting, NEW h \in Hosts,
         NEW d \in Resolved(c, h)
  PROVE  Becomes(c, d)
<1>0. c \in ClientType /\ h # None
  BY ClientAssumption DEF Ready
<1> DEFINE e == [c EXCEPT !.failed = TRUE]
           f == [c EXCEPT !.addrs = h, !.idx = 0]
<1>1. /\ Ready(e) /\ Same(c, e) /\ e.connected = c.connected /\ e.failed
      /\ e.connecting = c.connecting
  BY DEF Ready, Rest, Same, ClientType
<1>2. /\ Ready(f) /\ f.addrs = h /\ f.ctx = c.ctx /\ f.raced = c.raced
      /\ f.connected = c.connected
  BY <1>0 DEF Ready, Rest, ClientType
<1>3. d \in TellClosed(e) \/ d \in TryConnectNext(f)
  BY <1>0, ResolvedCases
<1> HIDE DEF e, f
<1>4. CASE d \in TellClosed(e)
  <2>1. Becomes(e, d)
    BY <1>1, <1>4, TellBecomes DEF Same
  <2> QED
    BY <1>1, <2>1 DEF Becomes, Same
<1>5. CASE d \in TryConnectNext(f)
  <2>1. Becomes(f, d)
    BY <1>0, <1>2, <1>5, TryBecomes
  <2> QED
    BY <1>2, <2>1 DEF Becomes
<1> QED
  BY <1>3, <1>4, <1>5

-----------------------------------------------------------------------------
(* The invariant                                                            *)

Busy(t) == \E h \in Hosts : th[t] = Resolving(h)

(* Only one thread at a time is inside a call, never the loop's between     *)
(* Start and connected_; while one resolves, nothing is under way.          *)
Places ==
  /\ \A t, u \in Threads : th[t] # Idle /\ th[u] # Idle => t = u
  /\ th[Loop] # Started
  /\ \A t \in Threads : Busy(t) => Rest(s)

(* connected_ is told late, and until then the connection is there.         *)
Truth ==
  ~s.raced => /\ Midway => s.open # {} /\ ~s.connected
              /\ ~Midway => (s.connected <=> s.open # {})

Goes ==
  Persists /\ s.ctx /\ s.host # None /\ ~s.manual /\ ~s.failed /\ ~s.raced =>
    ~Rest(s) \/ \E t \in Threads : Busy(t)

IInv == TypeInv /\ Apart(s) /\ Places /\ Truth /\ Goes

(* It holds until Connect is called while a connection is open.             *)
ClientInv == TypeInv /\ (~s.doubled => IInv)

LEMMA PlacesDiffer ==
  /\ Idle # Started
  /\ \A h : Resolving(h) # Idle /\ Resolving(h) # Started
BY DEF Idle, Started, Resolving

(* A handler that begins at rest on thread t.                               *)
LEMMA LeavesGood ==
  ASSUME IInv, TypeInv', NEW t \in Threads, NEW c, c.ctx = s.ctx, c.raced = s.raced,
         ~s.raced /\ ~Midway => ~c.connected, th[t] # Started,
         t # Loop => \A u \in Threads : u # t => th[u] = Idle,
         \A u \in Threads : u # t => ~Busy(u),
         NEW R, Leaves(t, R), \A d \in R : Becomes(c, d)
  PROVE  IInv'
<1>1. R \in SUBSET ClientType
  BY DEF Becomes
<1>2. PICK d \in R : LeftBy(t, d)
  BY <1>1, LeavesEffect
<1>3. Becomes(c, d)
  OBVIOUS
<1>4. Apart(s')
  BY <1>2, <1>3 DEF LeftBy, Becomes, Apart, Rest
<1>5. /\ th \in [Threads -> {Idle, Started} \cup {Resolving(h) : h \in Hosts}]
      /\ th' = [th EXCEPT ![t] = IF d.fresh /\ t # Loop THEN Started ELSE Idle]
      /\ Loop \in Threads
  BY <1>2 DEF LeftBy, IInv, TypeInv, TypeOK, Threads
<1>6. \A u \in Threads : u # t => th'[u] = th[u]
  BY <1>5
<1>7. th'[t] = IF d.fresh /\ t # Loop THEN Started ELSE Idle
  BY <1>5
<1>8. /\ \A u, v \in Threads : th'[u] # Idle /\ th'[v] # Idle => u = v
      /\ th'[Loop] # Started
  <2>1. CASE t = Loop
    <3>1. \A u \in Threads : th'[u] # Idle => th[u] # Idle
      BY <1>6, <1>7, <2>1
    <3> QED
      BY <1>7, <2>1, <3>1, PlacesDiffer DEF IInv, Places
  <2>2. CASE t # Loop
    BY <1>5, <1>6, <2>2, PlacesDiffer
  <2> QED
    BY <2>1, <2>2
<1>9. \A u \in Threads : ~Busy(u)'
  BY <1>6, <1>7, PlacesDiffer DEF Busy
<1>10. Truth'
  <2> SUFFICES ASSUME ~s'.raced
               PROVE  /\ Midway' => s'.open # {} /\ ~s'.connected
                      /\ ~Midway' => (s'.connected <=> s'.open # {})
    BY DEF Truth
  <2>1. ~s.raced /\ ~(t = Loop /\ Midway)
    BY <1>2, <1>3 DEF LeftBy, Becomes
  <2>2. ~Midway
    <3>1. CASE t = Loop
      BY <2>1, <3>1
    <3>2. CASE t # Loop
      BY <3>2, PlacesDiffer DEF Midway
    <3> QED
      BY <3>1, <3>2
  <2>3. Midway' <=> d.fresh /\ t # Loop
    BY <1>6, <1>7, <2>2, PlacesDiffer DEF Midway
  <2>4. ~d.connected /\ (d.fresh <=> d.open # {}) /\ s'.open = d.open
    BY <1>2, <1>3, <2>1, <2>2 DEF Becomes, LeftBy
  <2>5. IF d.fresh /\ t = Loop THEN s'.connected ELSE s'.connected = d.connected
    BY <1>2 DEF LeftBy
  <2> QED
    BY <2>3, <2>4, <2>5
<1>11. Goes'
  <2> SUFFICES ASSUME Persists, s'.ctx, ~s'.manual, ~s'.failed, ~s'.raced PROVE ~Rest(s')
    BY DEF Goes
  <2>1. ~s.raced /\ ~(t = Loop /\ Midway) /\ d.ctx /\ ~d.manual /\ ~d.failed /\ c.ctx
    BY <1>2, <1>3 DEF LeftBy, Becomes
  <2>2. ~Midway
    <3>1. CASE t = Loop
      BY <2>1, <3>1
    <3>2. CASE t # Loop
      BY <3>2, PlacesDiffer DEF Midway
    <3> QED
      BY <3>1, <3>2
  <2>3. ~Rest(d)
    BY <1>3, <2>1, <2>2 DEF Becomes
  <2> QED
    BY <1>2, <2>3 DEF LeftBy, Rest
<1> QED
  BY <1>4, <1>8, <1>9, <1>10, <1>11 DEF IInv, Places

(* Close, called on the loop's thread.                                      *)
LEMMA CloseGood ==
  ASSUME IInv, TypeInv', th[Loop] = Idle, Leaves(Loop, {Close(s)})
  PROVE  IInv'
<1> DEFINE d == Close(s)
<1>0. /\ s \in ClientType /\ ~s.fresh /\ Loop \in Threads
      /\ th \in [Threads -> {Idle, Started} \cup {Resolving(h) : h \in Hosts}]
  BY DEF IInv, TypeInv, TypeOK, Threads
<1>1. /\ d \in ClientType /\ Same(s, d) /\ d.manual /\ d.sock = None /\ ~d.timer /\ ~d.fresh
      /\ d.connecting = s.connecting /\ d.open = s.open \ {s.conn}
      /\ d.connected <=> s.connected /\ s.conn \notin s.open
  BY <1>0, CloseEffect
<1>2. d.open = {}
  BY <1>1 DEF IInv, Apart
<1>3. Leaves(Loop, {d})
  OBVIOUS
<1> HIDE DEF d
<1>4. LeftBy(Loop, d)
  BY <1>0, <1>1, <1>3, LeavesEffect
<1>5. th' = th
  BY <1>0, <1>1, <1>4 DEF LeftBy
<1>6. /\ s'.open = {} /\ s'.sock = None /\ ~s'.timer /\ s'.manual /\ s'.connecting = s.connecting
      /\ s'.host = s.host /\ s'.addrs = s.addrs /\ s'.connected = d.connected
      /\ s'.raced = (s.raced \/ Midway)
  BY <1>1, <1>2, <1>4 DEF LeftBy, Same
<1>7. Rest(s') /\ Apart(s')
  BY <1>6 DEF IInv, Apart, Rest
<1>8. Places'
  BY <1>5, <1>7 DEF IInv, Places, Busy
<1>9. Truth'
  <2> SUFFICES ASSUME ~s.raced, ~Midway PROVE ~s'.connected
    BY <1>5, <1>6 DEF Truth, Midway
  <2>1. s.connected <=> s.open # {}
    BY DEF IInv, Truth
  <2>2. s.open # {} => s.conn \in s.open
    BY DEF IInv, Apart
  <2> QED
    BY <1>1, <1>6, <2>1, <2>2
<1> QED
  BY <1>6, <1>7, <1>8, <1>9 DEF IInv, Goes

(* Connect, called when nothing is under way and nobody else is in a call.  *)
LEMMA ConnectGood ==
  ASSUME IInv, TypeInv', NEW t \in {Dialer, Loop}, NEW h \in Hosts, ConnectOn(t, h),
         \A u \in Threads : th[u] = Idle, s.open = {}
  PROVE  IInv'
<1> DEFINE a == Asked(h)
           c == [a EXCEPT !.idx = 0]
<1>0. /\ s \in ClientType /\ ~s.fresh /\ t \in Threads /\ h # None
      /\ th \in [Threads -> {Idle, Started} \cup {Resolving(g) : g \in Hosts}]
  BY ClientAssumption DEF IInv, TypeInv, TypeOK, Threads
<1>1. /\ a \in ClientType /\ ~a.manual /\ a.connecting /\ a.host = h /\ ~a.timer /\ a.sock = None
      /\ a.addrs = s.addrs /\ a.ctx = s.ctx /\ a.raced = s.raced /\ a.connected = s.connected
      /\ a.open = {} /\ ~a.fresh
  BY <1>0, AskedEffect
<1> HIDE DEF a
<1>2. /\ Ready(c) /\ ~c.manual /\ c.connecting /\ c.addrs = a.addrs /\ c.ctx = s.ctx
      /\ c.raced = s.raced /\ c.connected = s.connected
  BY <1>0, <1>1, IdxEffect DEF Ready, Rest, Same
<1>3. ~Midway /\ \A u \in Threads : ~Busy(u)
  BY PlacesDiffer DEF Midway, Busy
<1>4. ~s.raced => ~s.connected
  BY <1>3 DEF IInv, Truth
<1> HIDE DEF c
<1>5. CASE s' = c /\ th' = [th EXCEPT ![t] = Resolving(h)]
  <2>1. /\ \A u \in Threads : u # t => th'[u] = Idle
        /\ th'[t] = Resolving(h)
    BY <1>0, <1>5
  <2>2. Places'
    <3>1. \A u, v \in Threads : th'[u] # Idle /\ th'[v] # Idle => u = v
      BY <2>1
    <3>2. th'[Loop] # Started
      BY <2>1, PlacesDiffer DEF Threads
    <3> QED
      BY <1>2, <1>5, <3>1, <3>2 DEF Places, Ready
  <2>3. ~Midway'
    BY <2>1, PlacesDiffer DEF Midway
  <2>4. Truth'
    BY <1>2, <1>4, <1>5, <2>3 DEF Truth, Ready, Rest
  <2>5. Goes'
    BY <1>0, <2>1 DEF Goes, Busy
  <2>6. Apart(s')
    BY <1>2, <1>5 DEF Apart, Ready, Rest
  <2> QED
    BY <2>2, <2>4, <2>5, <2>6 DEF IInv
<1>6. CASE a.addrs # None /\ Leaves(t, TryConnectNext(c))
  <2>1. \A d \in TryConnectNext(c) : Becomes(c, d)
    BY <1>2, <1>6, TryBecomes
  <2>2. th[t] # Started
    BY <1>0, PlacesDiffer
  <2> QED
    BY <1>0, <1>2, <1>3, <1>4, <1>6, <2>1, <2>2, LeavesGood
<1> QED
  BY <1>0, <1>5, <1>6, ConnectCases DEF a, c

(* A Connect while a connection is open is remembered.                      *)
LEMMA ConnectDoubles ==
  ASSUME s \in ClientType, NEW t \in Threads, NEW h \in Hosts, ConnectOn(t, h), s.open # {}
  PROVE  s'.doubled
<1> DEFINE a == Asked(h)
           c == [a EXCEPT !.idx = 0]
<1>1. a \in ClientType /\ a.doubled
  BY AskedEffect
<1> HIDE DEF a
<1>2. c \in ClientType /\ Same(a, c) /\ c.addrs = a.addrs /\ c.idx <= N
  <2>1. 0 \in Nat /\ 0 <= N
    BY ClientAssumption
  <2> QED
    BY <1>1, <2>1, IdxEffect DEF Same
<1> HIDE DEF c
<1>3. CASE s' = c
  BY <1>1, <1>2, <1>3 DEF Same
<1>4. CASE a.addrs # None /\ Leaves(t, TryConnectNext(c))
  <2>1. \A d \in TryConnectNext(c) : d \in ClientType /\ d.doubled
    BY <1>1, <1>2, <1>4, TryType DEF Same, Sound
  <2>2. TryConnectNext(c) \in SUBSET ClientType
    BY <2>1
  <2> QED
    BY <1>4, <2>1, <2>2, LeavesEffect DEF LeftBy
<1> QED
  BY <1>3, <1>4, ConnectCases DEF a, c

LEMMA Starts == Init => ClientInv
<1> SUFFICES ASSUME Init PROVE IInv
  BY DEF IInv, ClientInv
<1>1. /\ s.open = {} /\ s.sock = None /\ ~s.timer /\ s.host = None /\ ~s.connected
      /\ \A t \in Threads : th[t] = Idle
  BY DEF Init
<1>2. Loop \in Threads /\ \A t \in Threads : th[t] # Started /\ ~Busy(t)
  BY <1>1, PlacesDiffer DEF Busy, Threads
<1>3. ~Midway
  BY <1>2 DEF Midway
<1>4. Apart(s) /\ Places /\ Truth /\ Goes
  BY <1>1, <1>2, <1>3 DEF Apart, Rest, Places, Truth, Goes
<1> QED
  BY <1>4, TypeStarts DEF IInv

LEMMA Keeps ==
  ASSUME "reconnect" \notin AppCalls
  PROVE  ClientInv /\ [Next]_vars => ClientInv'
<1>k. ASSUME ClientInv, [Next]_vars PROVE TypeInv' /\ Remembers
  BY <1>k, TypeKept DEF ClientInv
<1> SUFFICES ASSUME IInv, [Next]_vars, ~s'.doubled PROVE IInv'
  BY <1>k DEF ClientInv, Remembers
<1>0. /\ s \in ClientType /\ ~s.fresh /\ calls \in 0..MaxCalls /\ Loop \in Threads
      /\ Dialer \in Threads /\ th \in [Threads -> {Idle, Started} \cup {Resolving(h) : h \in Hosts}]
      /\ TypeInv' /\ Apart(s) /\ Places /\ Truth
  BY TypeKept DEF IInv, TypeInv, TypeOK, Threads
<1>a. ASSUME ~Rest(s) PROVE \A u \in Threads : ~Busy(u)
  BY <1>0, <1>a DEF Places
<1>b. s.host = None => s.open = {} /\ s.addrs = None /\ \A u \in Threads : th[u] = Idle
  BY DEF IInv, TypeInv, Unborn
<1>c. ASSUME s.host # None, ~Rest(s) PROVE s.addrs # None /\ ~s.manual
  BY <1>0, <1>c DEF Apart
<1>1. CASE Dial
  <2>1. PICK h \in Hosts : ConnectOn(Dialer, h)
    BY <1>1 DEF Dial
  <2>2. s.host = None
    BY <1>1 DEF Dial
  <2> QED
    BY <1>0, <1>b, <2>1, <2>2, ConnectGood
<1>2. CASE AppCall
  <2>1. /\ th[Loop] = Idle
        /\ \/ Leaves(Loop, {Close(s)})
           \/ /\ \A t \in Threads : th[t] = Idle
              /\ \E h \in Hosts : ConnectOn(Loop, h)
    BY <1>0, <1>2, AppCases
  <2>2. CASE Leaves(Loop, {Close(s)})
    BY <1>0, <2>1, <2>2, CloseGood
  <2>3. CASE /\ \A t \in Threads : th[t] = Idle
             /\ \E h \in Hosts : ConnectOn(Loop, h)
    <3>1. PICK h \in Hosts : ConnectOn(Loop, h)
      BY <2>3
    <3>2. s.open = {}
      BY <1>0, <3>1, ConnectDoubles
    <3> QED
      BY <1>0, <2>3, <3>1, <3>2, ConnectGood
  <2> QED
    BY <2>1, <2>2, <2>3
<1>3. CASE OnTimer
  <2>1. /\ th[Loop] = Idle /\ s.timer /\ Rung \in ClientType /\ Same(s, Rung) /\ ~Rung.timer
        /\ Rung.sock = s.sock /\ Rung.manual = s.manual /\ Rung.connected = s.connected
        /\ Rung.open = s.open /\ ~Rung.fresh
    BY <1>0, <1>3, TimerCases, RungEffect
  <2>2. s.host # None /\ s.addrs # None /\ ~s.manual /\ s.open = {} /\ s.sock = None
    BY <1>0, <1>c, <2>1 DEF IInv, TypeInv, Unborn, Apart, Rest
  <2> DEFINE c == [Rung EXCEPT !.idx = 0]
  <2>3. Leaves(Loop, TryConnectNext(c))
    BY <1>3, <2>1, <2>2, TimerCases DEF Same
  <2>4. Ready(c) /\ c.addrs # None /\ c.ctx = s.ctx /\ c.raced = s.raced /\ c.connected = s.connected
    BY <2>1, <2>2, IdxEffect DEF Ready, Rest, Same
  <2> HIDE DEF c
  <2>5. \A d \in TryConnectNext(c) : Becomes(c, d)
    BY <2>4, TryBecomes
  <2>6. ~s.raced /\ ~Midway => ~c.connected
    BY <1>0, <2>2, <2>4 DEF Truth
  <2>7. th[Loop] # Started /\ \A u \in Threads : ~Busy(u)
    BY <1>0, <1>a, <2>1 DEF Places, Rest
  <2> QED
    BY <1>0, <2>3, <2>4, <2>5, <2>6, <2>7, LeavesGood
<1>4. CASE OnConnectEvent
  <2> DEFINE c == CloseSock(s)
             y == [c EXCEPT !.idx = @ + 1]
  <2>1. th[Loop] = Idle /\ s.ctx /\ s.sock # None
    BY <1>4, EventCases
  <2>2. s.host # None /\ s.addrs # None /\ ~s.manual /\ s.open = {} /\ ~s.timer
    BY <1>0, <1>c, <2>1 DEF IInv, TypeInv, Unborn, Sound, Apart, Rest
  <2>3. Leaves(Loop, TryConnectNext(y)) \/ Leaves(Loop, OnConnectDone(c))
    BY <1>4, <2>2, EventCases
  <2>4. /\ Ready(c) /\ Same(s, c) /\ c.connected = s.connected /\ c.manual = s.manual /\ c.idx \in Nat
    BY <1>0, <2>2 DEF Ready, Rest, Same, CloseSock, ClientType
  <2> HIDE DEF c
  <2>5. Ready(y) /\ Same(c, y) /\ y.connected = c.connected
    <3>1. y = [c EXCEPT !.idx = c.idx + 1] /\ c.idx + 1 \in Nat
      BY <2>4
    <3> QED
      BY <2>4, <3>1, IdxEffect DEF Ready, Rest, Same
  <2> HIDE DEF y
  <2>6. ~s.raced /\ ~Midway => ~s.connected
    BY <1>0, <2>2 DEF Truth
  <2>7. th[Loop] # Started /\ \A u \in Threads : ~Busy(u)
    BY <1>0, <1>a, <2>1 DEF Places, Rest
  <2>8. CASE Leaves(Loop, TryConnectNext(y))
    <3>1. y.addrs # None /\ y.ctx = s.ctx /\ y.raced = s.raced /\ y.connected = s.connected
      BY <2>2, <2>4, <2>5 DEF Same
    <3>2. \A d \in TryConnectNext(y) : Becomes(y, d)
      BY <2>5, <3>1, TryBecomes
    <3> QED
      BY <1>0, <2>6, <2>7, <2>8, <3>1, <3>2, LeavesGood
  <2>9. CASE Leaves(Loop, OnConnectDone(c))
    <3>1. c.addrs # None /\ c.ctx = s.ctx /\ c.raced = s.raced
      BY <2>2, <2>4 DEF Same
    <3>2. \A d \in OnConnectDone(c) : Becomes(c, d)
      BY <2>1, <2>2, <2>4, <3>1, DoneBecomes
    <3> QED
      BY <1>0, <2>4, <2>6, <2>7, <2>9, <3>1, <3>2, LeavesGood
  <2> QED
    BY <2>3, <2>8, <2>9
<1>5. ASSUME NEW k \in Conns, ConnLost(k) PROVE IInv'
  <2> DEFINE c == Forget(s, k)
  <2>1. th[Loop] = Idle /\ k \in s.open
    BY <1>5, LostCases
  <2>2. /\ s.host # None /\ s.addrs # None /\ ~s.manual /\ s.sock = None /\ ~s.timer
        /\ ~s.connecting /\ s.open = {k}
    BY <1>0, <1>b, <1>c, <2>1 DEF Apart, Rest
  <2>3. /\ Ready(c) /\ Same(s, c) /\ ~c.connected /\ ~c.connecting /\ ~c.manual
    BY <1>0, <2>2, ForgetEffect DEF Ready, Rest, Same
  <2>4. Leaves(Loop, TellClosed(c))
    BY <1>5, <2>3, LostCases
  <2> HIDE DEF c
  <2>5. \A d \in TellClosed(c) : Becomes(c, d)
    BY <2>2, <2>3, TellBecomes DEF Same
  <2>6. th[Loop] # Started /\ \A u \in Threads : ~Busy(u)
    BY <1>0, <1>a, <2>1 DEF Places, Rest
  <2> QED
    BY <1>0, <2>3, <2>4, <2>5, <2>6, LeavesGood DEF Same
<1>6. ASSUME NEW t \in Threads, ResolveDone(t) PROVE IInv'
  <2>1. PICK h \in Hosts : th[t] = Resolving(h) /\ Leaves(t, Resolved(s, h))
    BY <1>6 DEF ResolveDone
  <2>2. Rest(s) /\ \A u \in Threads : u # t => th[u] = Idle
    BY <1>0, <2>1, PlacesDiffer DEF Places, Busy
  <2>3. s.host # None
    BY <1>b, <2>1, PlacesDiffer
  <2>4. Ready(s) /\ (s.addrs = None => s.connecting)
    BY <1>0, <2>2, <2>3 DEF Ready, Apart
  <2>5. \A d \in Resolved(s, h) : Becomes(s, d)
    BY <2>4, ResolvedBecomes
  <2>6. ~s.raced /\ ~Midway => ~s.connected
    BY <1>0, <2>2 DEF Truth, Rest
  <2>7. th[t] # Started /\ \A u \in Threads : u # t => ~Busy(u)
    BY <2>1, <2>2, PlacesDiffer DEF Busy
  <2> QED
    BY <1>0, <2>1, <2>2, <2>5, <2>6, <2>7, LeavesGood
<1>7. ASSUME NEW t \in Threads, AnnounceOn(t) PROVE IInv'
  <2>1. th[t] = Started /\ s' = Announce(s) /\ th' = [th EXCEPT ![t] = Idle]
    BY <1>7 DEF AnnounceOn
  <2>2. /\ Same(s, s') /\ s'.connected /\ s'.manual = s.manual /\ s'.connecting = s.connecting
        /\ s'.timer = s.timer /\ s'.sock = s.sock /\ s'.conn = s.conn /\ s'.open = s.open
        /\ s'.failed = s.failed
    BY <1>0, <2>1 DEF Announce, Same, ClientType
  <2>3. \A u \in Threads : th'[u] = Idle
    BY <1>0, <2>1, PlacesDiffer DEF Places
  <2>4. ~Midway' /\ \A u \in Threads : ~Busy(u)'
    BY <2>3, PlacesDiffer DEF Midway, Busy
  <2>5. Truth'
    BY <1>0, <2>1, <2>2, <2>4 DEF Truth, Midway, Same
  <2>6. \A u \in Threads : ~Busy(u)
    BY <1>0, <2>1, PlacesDiffer DEF Places, Busy
  <2>7. Apart(s')
    BY <1>0, <2>2 DEF Apart, Rest, Same
  <2>8. Goes'
    BY <2>2, <2>6 DEF IInv, Goes, Rest, Same
  <2>9. Places'
    BY <1>0, <2>3, <2>4, PlacesDiffer DEF Places
  <2> QED
    BY <1>0, <2>5, <2>7, <2>8, <2>9 DEF IInv
<1>8. CASE Answer
  <2>1. PICK st \in {"up", "refused"} : s' = [s EXCEPT !.sock.st = st]
    BY <1>8 DEF Answer
  <2>2. s.sock # None /\ s.sock \in Sockets /\ th' = th
    BY <1>0, <1>8 DEF Answer, ClientType
  <2>3. [s.sock EXCEPT !.st = st] \in Sockets
    BY <2>2 DEF Sockets
  <2>4. /\ Same(s, s') /\ s'.connected = s.connected /\ s'.manual = s.manual
        /\ s'.connecting = s.connecting /\ s'.timer = s.timer /\ s'.conn = s.conn
        /\ s'.open = s.open /\ s'.failed = s.failed /\ s'.sock = [s.sock EXCEPT !.st = st]
    BY <1>0, <2>1 DEF Same, ClientType
  <2>5. s'.sock # None
    BY <2>3, <2>4, ClientAssumption
  <2>6. Apart(s') /\ ~Rest(s')
    BY <1>0, <2>2, <2>4, <2>5 DEF Apart, Rest, Same
  <2>7. \A u \in Threads : ~Busy(u) /\ ~Busy(u)'
    BY <1>a, <2>2 DEF Rest, Busy
  <2>8. Places'
    BY <1>0, <2>2, <2>7 DEF Places
  <2>9. Truth'
    BY <1>0, <2>2, <2>4 DEF Truth, Midway, Same
  <2> QED
    BY <1>0, <2>6, <2>8, <2>9 DEF IInv, Goes
<1>9. CASE ContextGone
  <2>1. s' = [s EXCEPT !.ctx = FALSE] /\ th' = th
    BY <1>9 DEF ContextGone
  <2>2. /\ s'.host = s.host /\ s'.addrs = s.addrs /\ s'.raced = s.raced /\ ~s'.ctx
        /\ s'.connected = s.connected /\ s'.manual = s.manual
        /\ s'.connecting = s.connecting /\ s'.timer = s.timer /\ s'.conn = s.conn
        /\ s'.open = s.open /\ s'.failed = s.failed /\ s'.sock = s.sock
    BY <1>0, <2>1 DEF ClientType
  <2> QED
    BY <1>0, <2>1, <2>2 DEF IInv, Apart, Rest, Places, Busy, Truth, Midway, Goes
<1>10. CASE UNCHANGED vars
  BY <1>0, <1>10 DEF vars, IInv, Apart, Rest, Places, Busy, Truth, Midway, Goes
<1> QED
  BY <1>1, <1>2, <1>3, <1>4, <1>5, <1>6, <1>7, <1>8, <1>9, <1>10 DEF Next, LoopStep, ThreadStep

-----------------------------------------------------------------------------
(* The theorems.  A Reconnect from elsewhere than OnClose (468, 635) may    *)
(* dial beside a connection that a thread has started and not yet           *)
(* announced, or cancel the timer that is to reconnect: both theorems are   *)
(* about applications that call it where line 467 says.                     *)

(* THEOREM.  Whatever resolves, connects, fails and is closed on however    *)
(* many threads, the one open connection is conn_, within reach of Close;   *)
(* and connected_ tells the truth once calls have settled (NoOrphan) - until *)
(* Connect is called while a connection is open, which line 607 does not    *)
(* refuse and which leaves that one behind.                                 *)
THEOREM NeverOrphaned ==
  ASSUME "reconnect" \notin AppCalls
  PROVE  Spec => []NoOrphan
<1>1. ClientInv /\ [Next]_vars => ClientInv'
  BY Keeps
<1>2. ClientInv => NoOrphan
  <2> SUFFICES ASSUME IInv PROVE NoOrphan
    BY DEF ClientInv, NoOrphan
  <2>1. Settled => ~Midway
    BY PlacesDiffer DEF Settled, Midway
  <2> QED
    BY <2>1 DEF IInv, Apart, Truth, NoOrphan
<1> QED
  BY <1>1, <1>2, Starts, PTL DEF Spec

(* THEOREM.  A client whose OnClose reconnects or closes, and which is not  *)
(* closed, has a connection, an attempt or a timer, however many addresses  *)
(* refuse and connections are lost (ReconnectsWhenResolved), until Connect  *)
(* is called while a connection is open.                                    *)
THEOREM AlwaysReconnects ==
  ASSUME "reconnect" \notin AppCalls, "nothing" \notin OnCloseDoes
  PROVE  Spec => []ReconnectsWhenResolved
<1>1. ClientInv /\ [Next]_vars => ClientInv'
  BY Keeps
<1>2. ClientInv => ReconnectsWhenResolved
  <2> SUFFICES ASSUME IInv, Settled PROVE ReconnectsWhenResolved
    BY DEF ClientInv, ReconnectsWhenResolved
  <2>1. \A t \in Threads : ~Busy(t)
    BY PlacesDiffer DEF Settled, Busy
  <2> QED
    BY <2>1 DEF IInv, Goes, Rest, Persists, ReconnectsWhenResolved
<1> QED
  BY <1>1, <1>2, Starts, PTL DEF Spec

=============================================================================
