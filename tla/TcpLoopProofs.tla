--------------------------- MODULE TcpLoopProofs ---------------------------
(***************************************************************************)
(* Theorems about TcpLoop, for any number of peers, connections and         *)
(* descriptors, and any bounds.                                             *)
(***************************************************************************)
EXTENDS TcpLoop, SequenceTheorems, FiniteSetTheorems, WellFoundedInduction, TLAPS

-----------------------------------------------------------------------------
(* The invariant.  A number in the table is not enough: that it belongs to  *)
(* the object it leads to must also hold of fd_ and the kernel, up to the   *)
(* one step in which the application's thread has closed a number and not   *)
(* yet forgotten it.                                                        *)

(* A descriptor held in fd_ is that object's, unless it is being forgotten. *)
Numbered(s, a) ==
  \A o \in Objects :
    s.fd[o] # NoFd /\ a # [at |-> "forget", obj |-> o] => s.owner[s.fd[o]] = o

(* An open descriptor is in the fd_ of its object.                          *)
OwnersKnow(s) == \A f \in Fds : s.owner[f] # Nobody => s.fd[s.owner[f]] = f

(* How far a closing on the application's thread has come.                  *)
Closing(s, a) ==
  a.at \in {"erase", "close", "forget"} =>
    /\ a.obj \in Objects /\ s.fd[a.obj] # NoFd
    /\ a.obj \in Conns => s.closed[a.obj] = "user"
    /\ a.at # "erase" => \A f \in Fds : s.table[f] # a.obj
    /\ a.at = "forget" => \A f \in Fds : s.owner[f] # a.obj

(* A connection that waits to be accepted has no descriptor yet.            *)
NotYet(s, w) == \A c \in w : s.fd[c] = NoFd

TableGood(s) ==
  \A f \in Fds :
    LET o == s.table[f] IN o # Nobody => s.fd[o] = f /\ s.owner[f] = o

Good(s, a, w) ==
  Numbered(s, a) /\ OwnersKnow(s) /\ Closing(s, a) /\ NotYet(s, w) /\ TableGood(s)

AppType ==
  [at : {"idle", "ctl-add", "enter", "erase", "close", "forget", "join"},
   obj : Objects \cup {Nobody}]
EventType == [fd : Fds, what : {"in", "hup"}]

IInv ==
  /\ TypeOK
  /\ app.at \in {"idle", "join"} <=> app.obj = Nobody
  /\ loop.at \in {"dispatch", "call"} => loop.batch # <<>>
  /\ Good(net, app, waiting)

-----------------------------------------------------------------------------
(* Constants                                                                *)

(* The objects are the listener and the connections, and nobody is neither. *)
LEMMA Parties ==
  /\ Conns \subseteq Nat \ {0} /\ Objects = Conns \cup {Listener}
  /\ Listener \notin Conns /\ Nobody \notin Objects /\ NoFd \notin Fds
  /\ Fds \subseteq Nat /\ 1 \in Fds /\ Peers \cap Dialed = {}
  /\ Peers \subseteq Conns /\ Dialed \subseteq Conns
BY LoopAssumption DEF Conns, Objects, Listener, Nobody, NoFd, Fds

(* A set of descriptors has a lowest one: of the sets of those that are not *)
(* above a member, one contains no other.                                   *)
LEMMA LowestExists ==
  ASSUME NEW S \in SUBSET Fds, S # {}
  PROVE  \E f \in S : \A g \in S : f <= g
<1> DEFINE upto(f) == {g \in S : g <= f}
           family == {upto(f) : f \in S}
           R == StrictSubsetOrdering(Fds)
<1>1. S \subseteq Nat
  BY Parties
<1>2. IsFiniteSet(Fds)
  BY LoopAssumption, FS_Interval DEF Fds
<1>3. \A U \in SUBSET Fds : IsFiniteSet(U)
  BY <1>2, FS_Subset
<1>4. IsWellFoundedOn(R, FiniteSubsetsOf(Fds))
  BY FS_StrictSubsetOrderingWellFounded
<1>5. family \subseteq FiniteSubsetsOf(Fds) /\ family # {}
  BY <1>3 DEF FiniteSubsetsOf
<1>6. PICK U \in family : \A V \in family : ~ (<<V, U>> \in R)
  <2> HIDE DEF family, R
  <2> QED
    BY <1>4, <1>5, WFMin
<1>7. PICK f \in S : U = upto(f)
  BY <1>6
<1>8. \A g \in S : f <= g
  <2> SUFFICES ASSUME NEW g \in S, ~(f <= g) PROVE FALSE
    OBVIOUS
  <2>1. g <= f /\ g # f /\ ~(f <= g)
    BY <1>1
  <2>2. upto(g) \subseteq U /\ f \in U /\ f \notin upto(g)
    <3>1. f \in Nat /\ g \in Nat
      BY <1>1
    <3>2. \A h \in S : h \in Nat /\ (h <= g => h <= f)
      BY <1>1, <2>1, <3>1
    <3>3. f <= f
      BY <3>1
    <3>4. f \in upto(f) /\ f \notin upto(g) /\ upto(g) \subseteq upto(f)
      BY <2>1, <3>2, <3>3, Zenon
    <3> QED
      BY <1>7, <3>4
  <2>3. upto(g) \in family /\ upto(g) \subseteq Fds /\ U \subseteq Fds
    BY <1>7
  <2>4. <<upto(g), U>> \in R
    <3> HIDE DEF upto
    <3> QED
      BY <2>2, <2>3 DEF StrictSubsetOrdering
  <2> QED
    BY <1>6, <2>3, <2>4
<1> QED
  BY <1>8

(* The lowest free descriptor is a free one.                                *)
LEMMA LowestIsFree ==
  ASSUME NEW s, Free(s) # {}
  PROVE  Lowest(Free(s)) \in Free(s)
<1>1. \E f \in Free(s) : \A g \in Free(s) : f <= g
  BY LowestExists DEF Free
<1> QED
  BY <1>1 DEF Lowest

-----------------------------------------------------------------------------
(* The operators on net                                                     *)

LEMMA OpenFields ==
  ASSUME NEW s \in NetType, NEW o \in Objects, Free(s) # {}
  PROVE  LET t == Open(s, o)  n == Lowest(Free(s)) IN
         /\ t \in NetType /\ n \in Fds /\ s.owner[n] = Nobody
         /\ t.owner = [s.owner EXCEPT ![n] = o] /\ t.fd = [s.fd EXCEPT ![o] = n]
         /\ t.table = s.table /\ t.closed = s.closed /\ t.got = s.got
<1>1. Lowest(Free(s)) \in Fds /\ s.owner[Lowest(Free(s))] = Nobody
  BY LowestIsFree DEF Free
<1> QED
  BY <1>1 DEF Open, NetType

LEMMA AddFields ==
  ASSUME NEW s \in NetType, NEW f \in Fds \cup {NoFd}
  PROVE  LET t == CtlAdd(s, f) IN
         /\ t \in NetType /\ t.owner = s.owner /\ t.fd = s.fd
         /\ t.table = s.table /\ t.closed = s.closed /\ t.got = s.got
BY DEF CtlAdd, NetType

LEMMA EnterFields ==
  ASSUME NEW s \in NetType, NEW o \in Objects
  PROVE  LET t == Enter(s, o) IN
         /\ t \in NetType /\ t.owner = s.owner /\ t.fd = s.fd /\ t.closed = s.closed /\ t.got = s.got
         /\ t.table = IF s.fd[o] = NoFd THEN s.table ELSE [s.table EXCEPT ![s.fd[o]] = o]
BY DEF Enter, NetType

LEMMA EraseFields ==
  ASSUME NEW s \in NetType, NEW f \in Fds
  PROVE  LET t == Erase(s, f) IN
         /\ t \in NetType /\ t.owner = s.owner /\ t.fd = s.fd /\ t.closed = s.closed /\ t.got = s.got
         /\ t.table = [s.table EXCEPT ![f] = Nobody]
BY DEF Erase, NetType

(* CtlDel and ::close.                                                      *)
LEMMA CloseFields ==
  ASSUME NEW s \in NetType, NEW f \in Fds
  PROVE  LET t == CloseNumber(CtlDel(s, f), f) IN
         /\ t \in NetType /\ t.fd = s.fd /\ t.closed = s.closed /\ t.got = s.got /\ t.table = s.table
         /\ t.owner = [s.owner EXCEPT ![f] = Nobody]
<1> DEFINE d == CtlDel(s, f)
<1>1. /\ d \in NetType /\ d.owner = s.owner /\ d.fd = s.fd /\ d.closed = s.closed /\ d.got = s.got
      /\ d.table = s.table
  BY DEF CtlDel, NetType
<1> HIDE DEF d
<1> DEFINE u == [d EXCEPT !.owner[f] = Nobody, !.interest = @ \ {f}]
<1>2. /\ u \in NetType /\ u.owner = [d.owner EXCEPT ![f] = Nobody] /\ u.fd = d.fd
      /\ u.closed = d.closed /\ u.got = d.got /\ u.table = d.table
  BY <1>1 DEF NetType
<1> DEFINE v(o) == [u EXCEPT !.unread[o] = 0, !.ended[o] = "no", !.sent[o] = MaxSends]
<1>3. ASSUME NEW o \in Conns
      PROVE  /\ v(o) \in NetType /\ v(o).owner = u.owner /\ v(o).fd = u.fd
             /\ v(o).closed = u.closed /\ v(o).got = u.got /\ v(o).table = u.table
  <2> HIDE DEF u
  <2>1. MaxSends \in 0..MaxSends
    BY LoopAssumption
  <2> QED
    BY <1>2, <2>1 DEF NetType
<1>4. CloseNumber(d, f) = IF d.owner[f] \notin Conns THEN u ELSE v(d.owner[f])
  BY DEF CloseNumber
<1> HIDE DEF u, v
<1> QED
  BY <1>1, <1>2, <1>3, <1>4 DEF d

LEMMA ForgetFields ==
  ASSUME NEW s \in NetType, NEW o \in Objects
  PROVE  LET t == Forget(s, o) IN
         /\ t \in NetType /\ t.owner = s.owner /\ t.closed = s.closed /\ t.got = s.got /\ t.table = s.table
         /\ t.fd = [s.fd EXCEPT ![o] = NoFd]
BY DEF Forget, NetType

(* What close_now does on the loop's thread to an open connection that      *)
(* nobody has closed.                                                       *)
ClosedInto(s, c, why, t) ==
  LET f == s.fd[c] IN
  /\ t \in NetType
  /\ t.closed = [s.closed EXCEPT ![c] = why] /\ t.got = s.got
  /\ f = NoFd => t.fd = s.fd /\ t.owner = s.owner /\ t.table = s.table
  /\ f # NoFd => /\ t.fd = [s.fd EXCEPT ![c] = NoFd]
                 /\ t.owner = [s.owner EXCEPT ![f] = Nobody]
                 /\ t.table = [s.table EXCEPT ![f] = Nobody]

LEMMA CloseNowFields ==
  ASSUME NEW s \in NetType, NEW c \in Conns, NEW why \in {"peer", "user", "stale"}, s.closed[c] = "no"
  PROVE  ClosedInto(s, c, why, CloseNow(s, c, why))
<1> DEFINE f == s.fd[c]
           p == [s EXCEPT !.closed[c] = why]
           q == Erase(p, f)
           r == CloseNumber(CtlDel(q, f), f)
<1>1. CloseNow(s, c, why) = IF f = NoFd THEN p ELSE Forget(r, c)
  BY DEF CloseNow
<1>2. c \in Objects /\ f \in Fds \cup {NoFd}
  BY Parties DEF NetType
<1>3. /\ p \in NetType /\ p.closed = [s.closed EXCEPT ![c] = why] /\ p.got = s.got
      /\ p.fd = s.fd /\ p.owner = s.owner /\ p.table = s.table
  BY DEF NetType, Closings
<1> HIDE DEF f, p
<1>4. CASE f = NoFd
  BY <1>1, <1>3, <1>4 DEF f, ClosedInto
<1>5. CASE f # NoFd
  <2>1. /\ q \in NetType /\ q.owner = p.owner /\ q.fd = p.fd /\ q.closed = p.closed /\ q.got = p.got
        /\ q.table = [p.table EXCEPT ![f] = Nobody]
    BY <1>2, <1>3, <1>5, EraseFields
  <2> HIDE DEF q
  <2>2. /\ r \in NetType /\ r.fd = q.fd /\ r.closed = q.closed /\ r.got = q.got /\ r.table = q.table
        /\ r.owner = [q.owner EXCEPT ![f] = Nobody]
    BY <1>2, <1>5, <2>1, CloseFields
  <2> HIDE DEF r
  <2>3. /\ Forget(r, c) \in NetType /\ Forget(r, c).owner = r.owner
        /\ Forget(r, c).closed = r.closed /\ Forget(r, c).got = r.got /\ Forget(r, c).table = r.table
        /\ Forget(r, c).fd = [r.fd EXCEPT ![c] = NoFd]
    BY <1>2, <2>2, ForgetFields
  <2> QED
    BY <1>1, <1>3, <1>5, <2>1, <2>2, <2>3 DEF f, ClosedInto
<1> QED
  BY <1>4, <1>5

(* close_now on the loop's thread keeps the invariant, wherever the         *)
(* application's thread is.                                                 *)
LEMMA CloseNowGood ==
  ASSUME NEW s \in NetType, NEW a \in AppType, NEW w \in SUBSET Peers,
         NEW c \in Conns, NEW why \in {"peer", "user", "stale"}, Good(s, a, w)
  PROVE  /\ CloseNow(s, c, why) \in NetType /\ Good(CloseNow(s, c, why), a, w)
         /\ CloseNow(s, c, why).got = s.got
<1>1. CASE s.closed[c] # "no"
  BY <1>1 DEF CloseNow
<1>2. CASE s.closed[c] = "no"
  <2> DEFINE t == CloseNow(s, c, why)  f == s.fd[c]
  <2>1. /\ t \in NetType
        /\ t.closed = [s.closed EXCEPT ![c] = why] /\ t.got = s.got
        /\ f = NoFd => t.fd = s.fd /\ t.owner = s.owner /\ t.table = s.table
        /\ f # NoFd => /\ t.fd = [s.fd EXCEPT ![c] = NoFd]
                       /\ t.owner = [s.owner EXCEPT ![f] = Nobody]
                       /\ t.table = [s.table EXCEPT ![f] = Nobody]
    <3>1. ClosedInto(s, c, why, t)
      BY <1>2, CloseNowFields
    <3> QED
      BY <3>1 DEF ClosedInto
  <2> HIDE DEF t
  <2>2. a.at \in {"erase", "close", "forget"} => a.obj # c
    BY <1>2 DEF Good, Closing
  <2>3. c \in Objects /\ f \in Fds \cup {NoFd} /\ Nobody \notin Objects /\ NoFd \notin Fds
    BY Parties DEF NetType
  <2>4. a # [at |-> "forget", obj |-> c]
    BY <2>2
  <2>5. f # NoFd => s.owner[f] = c
    BY <2>3, <2>4 DEF Good, Numbered
  <2>6. Numbered(t, a)
    BY <2>1, <2>3, <2>5 DEF Good, Numbered, NetType
  <2>7. OwnersKnow(t)
    BY <2>1, <2>3, <2>5 DEF Good, OwnersKnow, NetType
  <2>8. Closing(t, a)
    BY <2>1, <2>2, <2>3 DEF Good, Closing, NetType, AppType
  <2>9. NotYet(t, w)
    BY <2>1, <2>3, Parties DEF Good, NotYet, NetType
  <2>10. TableGood(t)
    BY <2>1, <2>3, <2>5 DEF Good, TableGood, NetType
  <2> QED
    BY <2>1, <2>6, <2>7, <2>8, <2>9, <2>10 DEF Good, t
<1> QED
  BY <1>1, <1>2

(* So does the accepting and starting of a connection.                      *)
LEMMA OpenGood ==
  ASSUME NEW s \in NetType, NEW a \in AppType, NEW w \in SUBSET Peers,
         NEW c \in Conns, s.fd[c] = NoFd, Free(s) # {}, Good(s, a, w)
  PROVE  /\ Open(s, c) \in NetType /\ Good(Open(s, c), a, w \ {c})
         /\ Open(s, c).got = s.got /\ Open(s, c).fd[c] \in Fds
<1> DEFINE t == Open(s, c)  n == Lowest(Free(s))
<1>1. c \in Objects /\ Nobody \notin Objects /\ NoFd \notin Fds /\ w \subseteq Objects
  BY Parties
<1>2. /\ t \in NetType /\ n \in Fds /\ s.owner[n] = Nobody
      /\ t.owner = [s.owner EXCEPT ![n] = c] /\ t.fd = [s.fd EXCEPT ![c] = n]
      /\ t.table = s.table /\ t.closed = s.closed /\ t.got = s.got
  BY <1>1, OpenFields
<1> HIDE DEF t, n
<1>3. a.at \in {"erase", "close", "forget"} => a.obj # c
  BY DEF Good, Closing
<1>4. Numbered(t, a)
  BY <1>1, <1>2 DEF Good, Numbered, NetType
<1>5. OwnersKnow(t)
  BY <1>1, <1>2 DEF Good, OwnersKnow, NetType
<1>6. Closing(t, a)
  BY <1>1, <1>2, <1>3 DEF Good, Closing, NetType, AppType
<1>7. NotYet(t, w \ {c})
  BY <1>1, <1>2 DEF Good, NotYet, NetType
<1>8. TableGood(t)
  BY <1>1, <1>2 DEF Good, TableGood, NetType
<1> QED
  BY <1>1, <1>2, <1>4, <1>5, <1>6, <1>7, <1>8 DEF Good, t, NetType

(* AddFd after an Open, on either thread: the table learns of a connection  *)
(* that has its number.                                                     *)
LEMMA EnterGood ==
  ASSUME NEW s \in NetType, NEW a \in AppType, NEW w \in SUBSET Peers,
         NEW o \in Objects, a.at \in {"erase", "close", "forget"} => a.obj # o, Good(s, a, w)
  PROVE  Enter(s, o) \in NetType /\ Good(Enter(s, o), a, w) /\ Enter(s, o).got = s.got
<1> DEFINE t == Enter(s, o)  f == s.fd[o]
<1>1. /\ t \in NetType /\ t.owner = s.owner /\ t.fd = s.fd /\ t.closed = s.closed
      /\ t.got = s.got
      /\ t.table = IF f = NoFd THEN s.table ELSE [s.table EXCEPT ![f] = o]
  BY EnterFields
<1>2. f \in Fds \cup {NoFd}
  BY DEF NetType
<1> HIDE DEF t
<1>3. f # NoFd => s.owner[f] = o
  BY DEF Good, Numbered
<1>4. Numbered(t, a) /\ OwnersKnow(t) /\ NotYet(t, w)
  BY <1>1 DEF Good, Numbered, OwnersKnow, NotYet
<1>5. Closing(t, a)
  <2>1. \A g \in Fds : t.table[g] = s.table[g] \/ t.table[g] = o
    BY <1>1, <1>2 DEF NetType
  <2> QED
    BY <1>1, <2>1 DEF Good, Closing
<1>6. TableGood(t)
  BY <1>1, <1>2, <1>3 DEF Good, TableGood, NetType
<1> QED
  BY <1>1, <1>4, <1>5, <1>6 DEF Good, t

LEMMA AddGood ==
  ASSUME NEW s \in NetType, NEW a \in AppType, NEW w \in SUBSET Peers,
         NEW f \in Fds \cup {NoFd}, Good(s, a, w)
  PROVE  /\ CtlAdd(s, f) \in NetType /\ Good(CtlAdd(s, f), a, w)
         /\ CtlAdd(s, f).got = s.got /\ CtlAdd(s, f).fd = s.fd
<1> DEFINE t == CtlAdd(s, f)
<1>1. /\ t \in NetType /\ t.owner = s.owner /\ t.fd = s.fd
      /\ t.table = s.table /\ t.closed = s.closed /\ t.got = s.got
  BY AddFields
<1> HIDE DEF t
<1> QED
  BY <1>1 DEF Good, Numbered, OwnersKnow, Closing, NotYet, TableGood, t

LEMMA ServesGood ==
  ASSUME NEW s \in NetType, NEW a \in AppType, NEW w \in SUBSET Peers,
         NEW c \in w, Free(s) # {}, Good(s, a, w)
  PROVE  /\ Serves(s, c) \in NetType /\ Good(Serves(s, c), a, w \ {c})
         /\ Serves(s, c).got = s.got
<1> DEFINE t == Open(s, c)  u == CtlAdd(t, t.fd[c])
<1>1. c \in Conns /\ c \in Objects /\ s.fd[c] = NoFd /\ w \ {c} \in SUBSET Peers
  BY Parties DEF Good, NotYet
<1>2. t \in NetType /\ Good(t, a, w \ {c}) /\ t.got = s.got /\ t.fd[c] \in Fds
  BY <1>1, OpenGood
<1> HIDE DEF t
<1>3. u \in NetType /\ Good(u, a, w \ {c}) /\ u.got = t.got
  BY <1>1, <1>2, AddGood
<1>4. a.at \in {"erase", "close", "forget"} => a.obj # c
  BY <1>1 DEF Good, Closing
<1>5. Serves(s, c) = Enter(u, c)
  BY DEF Serves, AddFd, t
<1> HIDE DEF u
<1> QED
  BY <1>1, <1>2, <1>3, <1>4, <1>5, EnterGood

(* A handler of a connection, with what the user's code in it closes.       *)
Own(s) == \A c \in Conns : s.got[c] \subseteq {c}

LEMMA HandledGood ==
  ASSUME NEW s \in NetType, NEW a \in AppType, NEW w \in SUBSET Peers,
         NEW c \in Conns, NEW what, NEW t \in HandleEvent(s, c, what), Good(s, a, w)
  PROVE  /\ t \in NetType /\ Good(t, a, w)
         /\ a # [at |-> "forget", obj |-> c] /\ Own(s) => Own(t)
<1> DEFINE o == IF s.fd[c] = NoFd THEN Nobody ELSE s.owner[s.fd[c]]
           read == [s EXCEPT !.unread[o] = 0, !.got[c] = @ \cup {o}]
           after == IF s.unread[o] = 0 THEN {s} ELSE UserHandles(read, c)
<1>1. CASE \E why \in {"peer", "stale"} : t = CloseNow(s, c, why)
  <2>1. PICK why \in {"peer", "stale"} : t = CloseNow(s, c, why)
    BY <1>1
  <2> QED
    BY <2>1, CloseNowGood DEF Own
<1>2. CASE ~\E why \in {"peer", "stale"} : t = CloseNow(s, c, why)
  <2>1. /\ o \in Conns
        /\ t \in {IF NothingLeft(u, c, o) THEN CloseNow(u, c, "peer") ELSE u : u \in after}
    BY <1>2 DEF HandleEvent, HandleRead
  <2>2. PICK u \in after : t = u \/ t = CloseNow(u, c, "peer")
    BY <2>1
  <2>3. c \in Objects /\ Nobody \notin Conns
    BY Parties
  <2>4. s.fd[c] # NoFd /\ o = s.owner[s.fd[c]]
    BY <2>1, <2>3
  <2>5. a # [at |-> "forget", obj |-> c] => o = c
    BY <2>3, <2>4 DEF Good, Numbered
  <2> HIDE DEF o
  <2>6. /\ read \in NetType /\ read.owner = s.owner /\ read.fd = s.fd
        /\ read.closed = s.closed /\ read.table = s.table
        /\ read.got = [s.got EXCEPT ![c] = @ \cup {o}]
    BY <2>1 DEF NetType, Closings
  <2> HIDE DEF read
  <2>7. Good(read, a, w)
    BY <2>6 DEF Good, Numbered, OwnersKnow, Closing, NotYet, TableGood
  <2>8. a # [at |-> "forget", obj |-> c] /\ Own(s) => Own(read)
    BY <2>5, <2>6 DEF Own, NetType
  <2>9. /\ u \in NetType /\ Good(u, a, w)
        /\ a # [at |-> "forget", obj |-> c] /\ Own(s) => Own(u)
    <3>1. CASE u = s
      BY <3>1
    <3>2. CASE u = read
      BY <2>6, <2>7, <2>8, <3>2
    <3>3. CASE \E d \in Conns : u = CloseNow(read, d, "user")
      <4>1. PICK d \in Conns : u = CloseNow(read, d, "user")
        BY <3>3
      <4>2. u \in NetType /\ Good(u, a, w) /\ u.got = read.got
        BY <2>6, <2>7, <4>1, CloseNowGood
      <4> QED
        BY <2>8, <4>2 DEF Own
    <3>4. u = s \/ u \in UserHandles(read, c)
      BY <2>2
    <3>5. ASSUME u \in UserHandles(read, c)
          PROVE  u = read \/ \E d \in Conns : u = CloseNow(read, d, "user")
      BY <3>5, Zenon DEF UserHandles
    <3> QED
      BY <3>1, <3>2, <3>3, <3>4, <3>5
  <2> HIDE DEF after
  <2> QED
    BY <2>2, <2>9, CloseNowGood DEF Own
<1> QED
  BY <1>1, <1>2

-----------------------------------------------------------------------------
(* The application's thread                                                 *)

Elsewhere == {"idle", "ctl-add", "enter", "join"}

(* Outside a closing the invariant does not see where the thread is.        *)
LEMMA Moves ==
  ASSUME NEW s \in NetType, NEW a \in AppType, NEW b \in AppType, NEW w \in SUBSET Peers,
         a.at \in Elsewhere, b.at \in Elsewhere, Good(s, a, w)
  PROVE  Good(s, b, w)
<1>1. \A o \in Objects : a # [at |-> "forget", obj |-> o] /\ b # [at |-> "forget", obj |-> o]
  BY DEF Elsewhere
<1> QED
  BY <1>1 DEF Good, Numbered, Closing, Elsewhere

(* The handler is erased first, then the number is given back, then fd_     *)
(* forgets it.                                                              *)
LEMMA ErasesGood ==
  ASSUME NEW s \in NetType, NEW o \in Objects, NEW w \in SUBSET Peers,
         Good(s, [at |-> "erase", obj |-> o], w)
  PROVE  /\ s.fd[o] \in Fds /\ Erase(s, s.fd[o]) \in NetType
         /\ Erase(s, s.fd[o]).got = s.got
         /\ Good(Erase(s, s.fd[o]), [at |-> "close", obj |-> o], w)
<1> DEFINE f == s.fd[o]  t == Erase(s, f)
           a == [at |-> "erase", obj |-> o]  b == [at |-> "close", obj |-> o]
<1>1. f \in Fds /\ (o \in Conns => s.closed[o] = "user")
  BY Parties DEF Good, Closing, NetType
<1>2. /\ t \in NetType /\ t.owner = s.owner /\ t.fd = s.fd /\ t.closed = s.closed
      /\ t.got = s.got /\ t.table = [s.table EXCEPT ![f] = Nobody]
  BY <1>1, EraseFields
<1> HIDE DEF t
<1>3. OwnersKnow(t) /\ NotYet(t, w) /\ Numbered(t, b)
  BY <1>2 DEF Good, OwnersKnow, NotYet, Numbered
<1>4. TableGood(t)
  BY <1>1, <1>2 DEF Good, TableGood, NetType
<1>5. \A g \in Fds : t.table[g] # o
  BY <1>1, <1>2, Parties DEF Good, TableGood, NetType
<1>6. Closing(t, b)
  BY <1>1, <1>2, <1>5, Parties DEF Closing
<1> QED
  BY <1>1, <1>2, <1>3, <1>4, <1>6 DEF Good, t

LEMMA ClosesGood ==
  ASSUME NEW s \in NetType, NEW o \in Objects, NEW w \in SUBSET Peers,
         NEW v \in SUBSET w, Good(s, [at |-> "close", obj |-> o], w)
  PROVE  LET t == CloseNumber(CtlDel(s, s.fd[o]), s.fd[o]) IN
         t \in NetType /\ t.got = s.got /\ Good(t, [at |-> "forget", obj |-> o], v)
<1> DEFINE f == s.fd[o]  t == CloseNumber(CtlDel(s, f), f)
           a == [at |-> "close", obj |-> o]  b == [at |-> "forget", obj |-> o]
<1>1. /\ f \in Fds /\ (o \in Conns => s.closed[o] = "user")
      /\ \A g \in Fds : s.table[g] # o
  BY Parties DEF Good, Closing, NetType
<1>2. /\ t \in NetType /\ t.fd = s.fd /\ t.closed = s.closed /\ t.got = s.got
      /\ t.table = s.table /\ t.owner = [s.owner EXCEPT ![f] = Nobody]
  BY <1>1, CloseFields
<1> HIDE DEF t
<1>3. s.owner[f] = o
  BY <1>1, Parties DEF Good, Numbered
<1>4. OwnersKnow(t) /\ NotYet(t, v)
  BY <1>1, <1>2 DEF Good, OwnersKnow, NotYet, NetType
<1>5. Numbered(t, b)
  BY <1>1, <1>2, <1>3 DEF Good, Numbered, NetType
<1>6. TableGood(t)
  BY <1>1, <1>2, <1>3 DEF Good, TableGood, NetType
<1>7. \A g \in Fds : t.owner[g] # o
  BY <1>1, <1>2, <1>3, Parties DEF Good, OwnersKnow, NetType
<1>8. Closing(t, b)
  BY <1>1, <1>2, <1>7, Parties DEF Closing
<1> QED
  BY <1>2, <1>4, <1>5, <1>6, <1>8 DEF Good, t

LEMMA ForgetsGood ==
  ASSUME NEW s \in NetType, NEW o \in Objects, NEW w \in SUBSET Peers,
         Good(s, [at |-> "forget", obj |-> o], w)
  PROVE  Forget(s, o) \in NetType /\ Forget(s, o).got = s.got /\ Good(Forget(s, o), Idle, w)
<1> DEFINE t == Forget(s, o)
<1>1. (\A g \in Fds : s.table[g] # o) /\ (\A g \in Fds : s.owner[g] # o)
  BY DEF Good, Closing
<1>2. /\ t \in NetType /\ t.owner = s.owner /\ t.closed = s.closed /\ t.got = s.got
      /\ t.table = s.table /\ t.fd = [s.fd EXCEPT ![o] = NoFd]
  BY ForgetFields
<1> HIDE DEF t
<1>3. Numbered(t, Idle)
  <2>1. t.fd[o] = NoFd /\ \A x \in Objects : x # o => t.fd[x] = s.fd[x]
    BY <1>2 DEF NetType
  <2>2. \A x \in Objects : x # o /\ s.fd[x] # NoFd => s.owner[s.fd[x]] = x
    BY DEF Good, Numbered
  <2> QED
    BY <1>2, <2>1, <2>2 DEF Numbered
<1>4. OwnersKnow(t)
  BY <1>1, <1>2 DEF Good, OwnersKnow, NetType
<1>5. NotYet(t, w)
  BY <1>2, Parties DEF Good, NotYet, NetType
<1>6. TableGood(t)
  BY <1>1, <1>2 DEF Good, TableGood, NetType
<1>7. Closing(t, Idle)
  BY DEF Closing, Idle
<1> QED
  BY <1>2, <1>3, <1>4, <1>5, <1>6, <1>7 DEF Good, t

-----------------------------------------------------------------------------
(* The loop's batch                                                         *)

LEMMA EventsFinite == IsFiniteSet(EventType)
<1> DEFINE S == Fds \X {"in", "hup"}
           m == [x \in S |-> [fd |-> x[1], what |-> x[2]]]
<1>1. IsFiniteSet(Fds)
  BY LoopAssumption, FS_Interval DEF Fds
<1>2. IsFiniteSet({"in", "hup"})
  <2>1. IsFiniteSet({}) /\ IsFiniteSet({} \cup {"in"})
    BY FS_EmptySet, FS_AddElement
  <2>2. IsFiniteSet(({} \cup {"in"}) \cup {"hup"})
    BY <2>1, FS_AddElement
  <2>3. ({} \cup {"in"}) \cup {"hup"} = {"in", "hup"}
    OBVIOUS
  <2> QED
    BY <2>2, <2>3
<1>3. IsFiniteSet(S)
  BY <1>1, <1>2, FS_Product
<1>4. m \in Surjection(S, EventType)
  <2>1. m \in [S -> EventType]
    BY DEF EventType
  <2>2. \A e \in EventType : <<e.fd, e.what>> \in S /\ m[<<e.fd, e.what>>] = e
    BY DEF EventType
  <2> QED
    BY <2>1, <2>2 DEF Surjection
<1> HIDE DEF S, m
<1> QED
  BY <1>3, <1>4, FS_Surjection

(* A batch is a sequence of events, and is not empty.                       *)
LEMMA BatchType ==
  ASSUME net \in NetType, Ready # {}, NEW batch \in SetToSeqs(Ready)
  PROVE  batch \in Seq(EventType) /\ batch # <<>>
<1> DEFINE n == Cardinality(Ready)
<1>1. Ready \subseteq EventType
  <2>1. \A f \in net.interest : f \in Fds /\ Event(f) \subseteq {"in", "hup"}
    BY DEF Event, NetType
  <2> QED
    BY <2>1 DEF Ready, EventType
<1>2. IsFiniteSet(Ready)
  BY <1>1, EventsFinite, FS_Subset
<1>3. n \in Nat /\ n # 0
  BY <1>2, FS_CardinalityType, FS_EmptySet
<1>4. batch \in [1..n -> Ready]
  BY DEF SetToSeqs
<1> HIDE DEF n
<1>5. batch \in Seq(EventType) /\ Len(batch) = n
  BY <1>1, <1>3, <1>4
<1> QED
  BY <1>3, <1>5

(* What is left of it.                                                      *)
LEMMA RestType ==
  ASSUME TypeOK, loop.batch # <<>>
  PROVE  /\ Returned \in [at : {"poll", "dispatch"}, batch : Seq(EventType), cb : {Nobody}]
         /\ Returned.at = "dispatch" => Returned.batch # <<>>
         /\ Head(loop.batch) \in EventType
<1>1. loop.batch \in Seq(EventType)
  BY DEF TypeOK, EventType
<1>2. Head(loop.batch) \in EventType /\ Tail(loop.batch) \in Seq(EventType)
  BY <1>1, HeadTailProperties
<1> QED
  BY <1>2, Zenon DEF Returned

-----------------------------------------------------------------------------
(* The theorems                                                             *)

LEMMA Starts == Init => IInv /\ OwnData
<1> SUFFICES ASSUME Init PROVE IInv /\ OwnData
  OBVIOUS
<1>1. net \in NetType
  BY LoopAssumption, Parties DEF Init, NetType, Closings
<1>2. /\ loop = NoLoop /\ loop \in [at : {"none"}, batch : Seq(EventType), cb : {Nobody}]
      /\ app = [at |-> "ctl-add", obj |-> Listener] /\ waiting = {}
  <2>1. <<>> \in Seq(EventType)
    BY EmptySeq
  <2> QED
    BY <2>1 DEF Init, NoLoop
<1>3. TypeOK
  <2>1. /\ running = FALSE /\ stopped = FALSE /\ crossed = FALSE /\ calls = 0 /\ runs = 0
        /\ 0 \in 0..MaxCalls /\ 0 \in 0..MaxRuns
    BY LoopAssumption DEF Init
  <2> QED
    BY <1>1, <1>2, <2>1, Parties DEF TypeOK, EventType
<1>4. /\ net.fd = [o \in Objects |-> IF o = Listener THEN 1 ELSE NoFd]
      /\ net.owner = [f \in Fds |-> IF f = 1 THEN Listener ELSE Nobody]
      /\ net.table = [f \in Fds |-> Nobody] /\ net.got = [c \in Conns |-> {}]
  BY DEF Init
<1>5. Numbered(net, app) /\ OwnersKnow(net) /\ NotYet(net, waiting) /\ TableGood(net)
  BY <1>2, <1>4, Parties DEF Numbered, OwnersKnow, NotYet, TableGood
<1>6. Closing(net, app)
  BY <1>2 DEF Closing
<1>7. OwnData
  BY <1>4 DEF OwnData
<1> QED
  <2>1. app.at \notin {"idle", "join"} /\ app.obj # Nobody /\ loop.at = "none"
    BY <1>2, Parties
  <2> QED
    BY <1>3, <1>5, <1>6, <1>7, <2>1 DEF IInv, Good

(* What a step of the loop leaves of the invariant.                         *)
LoopInv ==
  /\ loop \in [at : {"none", "starting", "poll", "dispatch", "call"},
              batch : Seq(EventType), cb : Objects \cup {Nobody}]
  /\ loop.at \in {"dispatch", "call"} => loop.batch # <<>>
NetInv == net \in NetType /\ waiting \in SUBSET Peers /\ Good(net, app, waiting)
AppInv == app \in AppType /\ (app.at \in {"idle", "join"} <=> app.obj = Nobody)
RestInv ==
  /\ running \in BOOLEAN /\ stopped \in BOOLEAN /\ crossed \in BOOLEAN
  /\ calls \in 0..MaxCalls /\ runs \in 0..MaxRuns

LEMMA Parts == IInv <=> LoopInv /\ NetInv /\ AppInv /\ RestInv
BY DEF IInv, TypeOK, LoopInv, NetInv, AppInv, RestInv, AppType, EventType

(* Every step keeps it.                                                     *)
LEMMA Keeps == IInv /\ OwnData /\ [Next]_vars => IInv' /\ OwnData'
<1> SUFFICES ASSUME IInv, OwnData, [Next]_vars PROVE IInv' /\ OwnData'
  OBVIOUS
<1> USE DEF Idle
<1>0. LoopInv /\ NetInv /\ AppInv /\ RestInv
  BY Parts
<1>1. SUFFICES LoopInv' /\ NetInv' /\ AppInv' /\ RestInv' /\ OwnData'
  BY Parts, PTL
<1>a. /\ UNCHANGED loop => LoopInv'
      /\ UNCHANGED <<net, waiting, app>> => NetInv'
      /\ UNCHANGED app => AppInv'
      /\ UNCHANGED <<running, stopped, crossed, calls, runs>> => RestInv'
      /\ UNCHANGED <<net, crossed>> => OwnData'
  BY <1>0 DEF LoopInv, NetInv, AppInv, RestInv, OwnData
<1>r. loop.batch # <<>> =>
        /\ Returned \in [at : {"poll", "dispatch"}, batch : Seq(EventType), cb : {Nobody}]
        /\ Returned.at = "dispatch" => Returned.batch # <<>>
        /\ Head(loop.batch) \in EventType
  BY RestType DEF IInv
<1>d. UNCHANGED crossed /\ net'.got = net.got => OwnData'
  BY DEF OwnData
<1>2. CASE LoopBegins
  BY <1>0, <1>a, <1>2 DEF LoopBegins, LoopInv, RestInv
<1>3. CASE LoopPolls
  <2>1. PICK batch \in SetToSeqs(Ready) : loop' = [loop EXCEPT !.at = "dispatch", !.batch = batch]
    BY <1>3 DEF LoopPolls
  <2>2. batch \in Seq(EventType) /\ batch # <<>>
    BY <1>0, <1>3, BatchType DEF LoopPolls, NetInv
  <2>3. LoopInv'
    BY <1>0, <2>1, <2>2 DEF LoopInv
  <2> QED
    BY <1>a, <1>3, <2>3 DEF LoopPolls
<1>4. CASE LoopEnds
  <2>1. LoopInv'
    BY <1>4 DEF LoopEnds, LoopInv, NoLoop
  <2> QED
    BY <1>a, <1>4, <2>1 DEF LoopEnds
<1>5. CASE LoopDispatches
  <2>1. loop.batch # <<>>
    BY <1>0, <1>5 DEF LoopDispatches, LoopInv
  <2>2. net.table[Head(loop.batch).fd] \in Objects \cup {Nobody}
    BY <1>0, <1>r, <2>1 DEF NetInv, NetType, EventType
  <2>3. LoopInv'
    BY <1>0, <1>5, <1>r, <2>1, <2>2 DEF LoopDispatches, LoopInv
  <2> QED
    BY <1>a, <1>5, <2>3 DEF LoopDispatches
<1>6. CASE HandleAccept
  <2>1. ASSUME CanAccept, UNCHANGED loop, NEW c \in waiting,
               net' = Serves(net, c), waiting' = waiting \ {c}
        PROVE  LoopInv' /\ NetInv' /\ AppInv' /\ RestInv' /\ OwnData'
    <3>1. /\ Serves(net, c) \in NetType /\ Good(Serves(net, c), app, waiting \ {c})
          /\ Serves(net, c).got = net.got
      BY <1>0, <2>1, ServesGood DEF CanAccept, NetInv, AppInv
    <3>2. UNCHANGED <<running, app, calls, runs, stopped, crossed>>
      BY <1>6 DEF HandleAccept
    <3>3. NetInv'
      BY <1>0, <2>1, <3>1, <3>2 DEF NetInv
    <3> QED
      BY <1>a, <1>d, <2>1, <3>1, <3>2, <3>3
  <2>2. CASE ~CanAccept /\ loop' = Returned /\ UNCHANGED <<net, waiting>>
    <3>1. LoopInv'
      BY <1>0, <1>6, <1>r, <2>2 DEF HandleAccept, LoopInv
    <3> QED
      BY <1>a, <1>6, <2>2, <3>1 DEF HandleAccept
  <2> QED
    BY <1>6, <2>1, <2>2 DEF HandleAccept
<1>7. CASE LoopCalls
  <2>1. loop.batch # <<>> /\ loop.cb \in Conns
    BY <1>0, <1>7 DEF LoopCalls, LoopInv
  <2>2. /\ net' \in HandleEvent(net, loop.cb, Head(loop.batch).what)
        /\ crossed' = (crossed \/ app = [at |-> "forget", obj |-> loop.cb])
        /\ loop' = Returned /\ UNCHANGED <<waiting, running, app, calls, runs, stopped>>
    BY <1>7 DEF LoopCalls
  <2>3. /\ net' \in NetType /\ Good(net', app, waiting)
        /\ app # [at |-> "forget", obj |-> loop.cb] /\ Own(net) => Own(net')
    BY <1>0, <2>1, <2>2, HandledGood DEF NetInv, AppInv
  <2>4. LoopInv' /\ NetInv' /\ RestInv'
    BY <1>0, <1>r, <2>1, <2>2, <2>3 DEF LoopInv, NetInv, RestInv
  <2>5. OwnData'
    BY <2>2, <2>3 DEF OwnData, Own
  <2> QED
    BY <1>a, <2>2, <2>4, <2>5
<1>8. CASE RunAsync
  <2>1. LoopInv'
    <3>1. <<>> \in Seq(EventType)
      BY EmptySeq
    <3>2. loop' = [at |-> "starting", batch |-> <<>>, cb |-> Nobody]
      BY <1>8 DEF RunAsync, NoLoop
    <3> QED
      BY <3>1, <3>2 DEF LoopInv
  <2>2. /\ runs < MaxRuns /\ runs' = runs + 1 /\ stopped' = FALSE
        /\ UNCHANGED <<running, crossed, calls>>
    BY <1>8 DEF RunAsync
  <2>3. runs' \in 0..MaxRuns
    BY <1>0, <2>2, LoopAssumption DEF RestInv
  <2>4. RestInv'
    BY <1>0, <2>2, <2>3 DEF RestInv
  <2> QED
    BY <1>a, <1>8, <2>1, <2>4 DEF RunAsync
<1>9. CASE Stop
  <2>1. app' \in AppType /\ app'.at \in Elsewhere /\ app.at \in Elsewhere
    BY <1>9 DEF Stop, AppType, Elsewhere
  <2>2. NetInv'
    BY <1>0, <1>9, <2>1, Moves DEF Stop, NetInv, AppInv
  <2>3. AppInv' /\ RestInv'
    BY <1>0, <1>9 DEF Stop, AppInv, AppType, RestInv
  <2> QED
    BY <1>a, <1>9, <2>2, <2>3 DEF Stop
<1>10. CASE Join
  <2>1. app' \in AppType /\ app'.at \in Elsewhere /\ app.at \in Elsewhere
    BY <1>10 DEF Join, AppType, Elsewhere
  <2>2. NetInv'
    BY <1>0, <1>10, <2>1, Moves DEF Join, NetInv, AppInv
  <2>3. AppInv'
    BY <1>0, <1>10 DEF Join, AppInv, AppType
  <2> QED
    BY <1>a, <1>10, <2>2, <2>3 DEF Join
<1>11. CASE AppCloses
  <2>1. PICK o \in Objects :
          /\ net.fd[o] # NoFd /\ (o \in Conns => net.closed[o] = "no")
          /\ app' = [at |-> "erase", obj |-> o]
          /\ net' = IF o \in Conns THEN [net EXCEPT !.closed[o] = "user"] ELSE net
    BY <1>11 DEF AppCloses
  <2>2. /\ net' \in NetType /\ net'.owner = net.owner /\ net'.fd = net.fd
        /\ net'.table = net.table /\ net'.got = net.got
        /\ o \in Conns => net'.closed[o] = "user"
    BY <1>0, <2>1 DEF NetInv, NetType, Closings
  <2>3. Good(net, app, waiting) /\ app = [at |-> "idle", obj |-> Nobody]
    BY <1>0, <1>11 DEF NetInv, AppCloses
  <2>4. Numbered(net', app')
    BY <2>1, <2>2, <2>3 DEF Good, Numbered
  <2>5. OwnersKnow(net') /\ NotYet(net', waiting) /\ TableGood(net')
    BY <2>2, <2>3 DEF Good, OwnersKnow, NotYet, TableGood
  <2>6. Closing(net', app')
    BY <2>1, <2>2 DEF Closing
  <2>7. UNCHANGED <<waiting, loop, running, runs, stopped, crossed>> /\ calls' \in 0..MaxCalls
    BY <1>0, <1>11, LoopAssumption DEF AppCloses, RestInv
  <2>8. AppInv'
    BY <2>1, Parties DEF AppInv, AppType
  <2> QED
    BY <1>0, <1>a, <1>d, <2>2, <2>4, <2>5, <2>6, <2>7, <2>8 DEF NetInv, Good, RestInv
<1>12. CASE AppOpens
  <2>1. PICK c \in Dialed : net.fd[c] = NoFd /\ net' = Open(net, c) /\ app' = [at |-> "ctl-add", obj |-> c]
    BY <1>12 DEF AppOpens
  <2>2. /\ Free(net) # {} /\ app = [at |-> "idle", obj |-> Nobody]
        /\ UNCHANGED <<waiting, loop, running, calls, runs, stopped, crossed>>
    BY <1>12 DEF AppOpens
  <2>3. c \in Conns /\ c \in Objects /\ c # Nobody /\ waiting \ {c} = waiting
    BY <1>0, Parties DEF NetInv
  <2>4. net' \in NetType /\ Good(net', app, waiting) /\ net'.got = net.got
    BY <1>0, <2>1, <2>2, <2>3, OpenGood DEF NetInv, AppInv
  <2>5. AppInv'
    BY <2>1, <2>3 DEF AppInv, AppType
  <2>6. Good(net', app', waiting)
    BY <1>0, <2>1, <2>2, <2>4, <2>5, Moves DEF AppInv, NetInv, Elsewhere
  <2> QED
    BY <1>0, <1>a, <1>d, <2>2, <2>4, <2>5, <2>6 DEF NetInv
<1>13. CASE AppSteps
  <2> DEFINE o == app.obj  f == net.fd[o]
  <2>1. /\ o \in Objects /\ app.at \notin {"idle", "join"} /\ app = [at |-> app.at, obj |-> o]
        /\ f \in Fds \cup {NoFd}
        /\ UNCHANGED <<loop, running, calls, runs, stopped, crossed>>
    BY <1>0, <1>13 DEF AppSteps, AppInv, AppType, NetInv, NetType
  <2>2. ASSUME app.at = "ctl-add", net' = CtlAdd(net, f), app' = [app EXCEPT !.at = "enter"],
               UNCHANGED waiting
        PROVE  NetInv' /\ AppInv' /\ net'.got = net.got
    <3>1. net' \in NetType /\ Good(net', app, waiting) /\ net'.got = net.got
      BY <1>0, <2>1, <2>2, AddGood DEF NetInv, AppInv
    <3>2. AppInv'
      BY <1>0, <2>1, <2>2 DEF AppInv, AppType
    <3>3. Good(net', app', waiting)
      BY <1>0, <2>2, <3>1, <3>2, Moves DEF AppInv, AppType, NetInv, Elsewhere
    <3> QED
      BY <1>0, <2>2, <3>1, <3>2, <3>3 DEF NetInv
  <2>3. ASSUME app.at = "enter", net' = Enter(net, o), app' = Idle, UNCHANGED waiting
        PROVE  NetInv' /\ AppInv' /\ net'.got = net.got
    <3>1. net' \in NetType /\ Good(net', app, waiting) /\ net'.got = net.got
      BY <1>0, <2>1, <2>3, EnterGood DEF NetInv, AppInv
    <3>2. AppInv'
      BY <2>3 DEF AppInv, AppType
    <3>3. Good(net', app', waiting)
      BY <1>0, <2>3, <3>1, <3>2, Moves DEF AppInv, NetInv, Elsewhere
    <3> QED
      BY <1>0, <2>3, <3>1, <3>2, <3>3 DEF NetInv
  <2>4. ASSUME app.at = "erase", net' = Erase(net, f), app' = [app EXCEPT !.at = "close"],
               UNCHANGED waiting
        PROVE  NetInv' /\ AppInv' /\ net'.got = net.got
    <3>1. app = [at |-> "erase", obj |-> o] /\ app' = [at |-> "close", obj |-> o]
      BY <1>0, <2>1, <2>4 DEF AppInv, AppType
    <3>2. net' \in NetType /\ Good(net', app', waiting) /\ net'.got = net.got
      BY <1>0, <2>1, <2>4, <3>1, ErasesGood DEF NetInv
    <3> QED
      BY <1>0, <2>1, <2>4, <3>1, <3>2, Parties DEF NetInv, AppInv, AppType
  <2>5. ASSUME app.at = "close", net' = CloseNumber(CtlDel(net, f), f),
               app' = [app EXCEPT !.at = "forget"], waiting' = IF o = Listener THEN {} ELSE waiting
        PROVE  NetInv' /\ AppInv' /\ net'.got = net.got
    <3>1. app = [at |-> "close", obj |-> o] /\ app' = [at |-> "forget", obj |-> o]
      BY <1>0, <2>1, <2>5 DEF AppInv, AppType
    <3>2. net' \in NetType /\ Good(net', app', waiting') /\ net'.got = net.got
      BY <1>0, <2>1, <2>5, <3>1, ClosesGood DEF NetInv
    <3> QED
      BY <1>0, <2>1, <2>5, <3>1, <3>2, Parties DEF NetInv, AppInv, AppType
  <2>6. ASSUME app.at = "forget", net' = Forget(net, o), app' = Idle, UNCHANGED waiting
        PROVE  NetInv' /\ AppInv' /\ net'.got = net.got
    <3>1. app = [at |-> "forget", obj |-> o]
      BY <1>0, <2>1, <2>6 DEF AppInv, AppType
    <3>2. net' \in NetType /\ Good(net', app', waiting) /\ net'.got = net.got
      BY <1>0, <2>1, <2>6, <3>1, ForgetsGood DEF NetInv
    <3> QED
      BY <1>0, <2>6, <3>2 DEF NetInv, AppInv, AppType
  <2>7. NetInv' /\ AppInv' /\ net'.got = net.got
    BY <1>13, <2>2, <2>3, <2>4, <2>5, <2>6 DEF AppSteps
  <2> QED
    BY <1>a, <1>d, <2>1, <2>7
<1>14. CASE PeerConnects
  <2>1. PICK c \in Peers : net.fd[c] = NoFd /\ waiting' = waiting \cup {c}
    BY <1>14 DEF PeerConnects
  <2>2. Good(net, app, waiting')
    BY <1>0, <2>1 DEF NetInv, Good, NotYet
  <2>3. NetInv'
    BY <1>0, <1>14, <2>1, <2>2 DEF PeerConnects, NetInv
  <2> QED
    BY <1>a, <1>14, <2>3 DEF PeerConnects
<1>15. CASE PeerActs
  <2>1. PICK c \in Conns :
          \/ /\ net.sent[c] < MaxSends
             /\ net' = [net EXCEPT !.unread[c] = @ + 1, !.sent[c] = @ + 1]
          \/ \E how \in {"eof", "reset"} : net' = [net EXCEPT !.ended[c] = how]
    BY <1>15 DEF PeerActs
  <2>2. /\ net' \in NetType /\ net'.owner = net.owner /\ net'.fd = net.fd
        /\ net'.table = net.table /\ net'.closed = net.closed /\ net'.got = net.got
    <3>1. CASE /\ net.sent[c] < MaxSends
               /\ net' = [net EXCEPT !.unread[c] = @ + 1, !.sent[c] = @ + 1]
      <4> DEFINE m == net.unread[c] + 1  n == net.sent[c] + 1
      <4>1. m \in Nat /\ n \in 0..MaxSends
        BY <1>0, <3>1, LoopAssumption DEF NetInv, NetType
      <4>2. net' = [net EXCEPT !.unread[c] = m, !.sent[c] = n]
        BY <3>1
      <4> HIDE DEF m, n
      <4> QED
        BY <1>0, <4>1, <4>2 DEF NetInv, NetType
    <3>2. CASE \E how \in {"eof", "reset"} : net' = [net EXCEPT !.ended[c] = how]
      <4>1. PICK how \in {"eof", "reset"} : net' = [net EXCEPT !.ended[c] = how]
        BY <3>2
      <4> QED
        BY <1>0, <4>1 DEF NetInv, NetType
    <3> QED
      BY <2>1, <3>1, <3>2
  <2>3. Good(net', app, waiting)
    BY <1>0, <2>2 DEF NetInv, Good, Numbered, OwnersKnow, Closing, NotYet, TableGood
  <2>4. UNCHANGED <<waiting, loop, running, app, calls, runs, stopped, crossed>>
    BY <1>15 DEF PeerActs
  <2> QED
    BY <1>0, <1>a, <1>d, <2>2, <2>3, <2>4 DEF NetInv
<1>16. CASE UNCHANGED vars
  BY <1>a, <1>16 DEF vars
<1> QED
  BY <1>2, <1>3, <1>4, <1>5, <1>6, <1>7, <1>8, <1>9, <1>10, <1>11, <1>12, <1>13, <1>14,
     <1>15, <1>16 DEF Next, Loop, App

(* THEOREM.  The state of the loop, the table and the connections is of its *)
(* type.                                                                    *)
THEOREM TypeCorrect == Spec => []TypeOK
<1>1. IInv => TypeOK
  BY DEF IInv
<1> QED
  BY <1>1, Starts, Keeps, PTL DEF Spec

(* THEOREM.  Whatever the loop's thread and the application's do to the     *)
(* table, at every step of AddFd, DelFd and close_now, with any number of   *)
(* connections and descriptors: a number in the table is in the fd_ of the  *)
(* object whose handler it has, and the kernel has given it to that object. *)
THEOREM TableIsTrue == Spec => []TableTrue
<1>1. IInv => TableTrue
  BY DEF IInv, Good, TableGood, TableTrue
<1> QED
  BY <1>1, Starts, Keeps, PTL DEF Spec

(* THEOREM.  HandleRead takes data of its own connection only, until it has *)
(* run while the application's thread was between ::close and fd_ = -1.     *)
THEOREM DataIsOwn == Spec => []OwnData
BY Starts, Keeps, PTL DEF Spec

=============================================================================
