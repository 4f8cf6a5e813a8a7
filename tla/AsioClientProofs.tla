-------------------------- MODULE AsioClientProofs --------------------------
(***************************************************************************)
(* Theorems about AsioClient, for every bound and every set of calls of     *)
(* the application and of its OnClose.                                      *)
(***************************************************************************)
EXTENDS AsioClient, SequenceTheorems, TLAPS

JobType == [kind : {"connect", "timer", "start", "send", "close"}, conn : Nat, msg : Nat]
ClientType ==
  [manual : BOOLEAN, connecting : BOOLEAN, connected : BOOLEAN,
   conn : Nat, armed : BOOLEAN, kept : BOOLEAN, cancelled : BOOLEAN]
ConnType ==
  [closed : BOOLEAN, reading : BOOLEAN, started : BOOLEAN,
   outbox : Seq(Nat), writing : BOOLEAN]

(* A posted handler that begins an attempt to connect.                      *)
Attempt(j) == j.kind \in {"connect", "timer"}
Has(q) == \E i \in DOMAIN q : Attempt(q[i])
Sole(q) == \A i, j \in DOMAIN q : Attempt(q[i]) /\ Attempt(q[j]) => i = j

(* The other handlers belong to one of n connections.                       *)
JobsOK(q, n) ==
  /\ q \in Seq(JobType)
  /\ \A i \in DOMAIN q : ~Attempt(q[i]) => q[i].conn \in 1..n

LEMMA QueuedHas ==
  /\ Queued({"connect", "timer"}) <=> Has(queue)
  /\ Queued({"connect", "timer"})' <=> Has(queue')
BY DEF Queued, Has, Attempt

-----------------------------------------------------------------------------
(* Queues: adding a handler, taking the first                               *)

LEMMA AppendJob ==
  ASSUME NEW n \in Nat, NEW q, JobsOK(q, n), NEW j \in JobType,
         Attempt(j) \/ j.conn \in 1..n
  PROVE  /\ JobsOK(Append(q, j), n)
         /\ Has(Append(q, j)) <=> Has(q) \/ Attempt(j)
         /\ Sole(q) /\ (~Has(q) \/ ~Attempt(j)) => Sole(Append(q, j))
<1> DEFINE r == Append(q, j)
<1>1. /\ q \in Seq(JobType) /\ r \in Seq(JobType) /\ Len(r) = Len(q) + 1 /\ Len(q) \in Nat
      /\ DOMAIN q = 1..Len(q) /\ DOMAIN r = 1..(Len(q) + 1)
      /\ \A i \in 1..Len(q) : r[i] = q[i]
      /\ r[Len(q) + 1] = j
  BY AppendProperties, LenProperties DEF JobsOK
<1> HIDE DEF r
<1>2. \A i \in DOMAIN r : i \in DOMAIN q \/ i = Len(q) + 1
  BY <1>1
<1>3. \A i \in DOMAIN q : i \in DOMAIN r /\ i # Len(q) + 1
  BY <1>1
<1>4. Len(q) + 1 \in DOMAIN r
  BY <1>1
<1>5. JobsOK(r, n)
  BY <1>1, <1>2 DEF JobsOK
<1>6. Has(r) <=> Has(q) \/ Attempt(j)
  BY <1>1, <1>2, <1>3, <1>4 DEF Has
<1>7. ASSUME Sole(q), ~Has(q) \/ ~Attempt(j) PROVE Sole(r)
  BY <1>1, <1>2, <1>7 DEF Has, Sole
<1> QED
  BY <1>5, <1>6, <1>7 DEF r

LEMMA FirstJob ==
  ASSUME NEW n \in Nat, NEW q, JobsOK(q, n), q # <<>>
  PROVE  /\ Head(q) \in JobType /\ JobsOK(Tail(q), n)
         /\ Attempt(Head(q)) \/ Head(q).conn \in 1..n
         /\ Has(Tail(q)) => Has(q)
         /\ Attempt(Head(q)) => Has(q)
         /\ Sole(q) => Sole(Tail(q)) /\ (Attempt(Head(q)) => ~Has(Tail(q)))
         /\ ~Attempt(Head(q)) => (Has(q) => Has(Tail(q)))
<1> DEFINE r == Tail(q)  h == Head(q)
<1>1. /\ q \in Seq(JobType) /\ r \in Seq(JobType) /\ h \in JobType
      /\ Len(r) = Len(q) - 1 /\ Len(q) \in Nat /\ Len(q) > 0
      /\ DOMAIN q = 1..Len(q) /\ DOMAIN r = 1..(Len(q) - 1)
      /\ \A i \in 1..(Len(q) - 1) : r[i] = q[i + 1]
      /\ h = q[1]
  BY HeadTailProperties, LenProperties, EmptySeq DEF JobsOK
<1> HIDE DEF r, h
<1>2. \A i \in DOMAIN r : i + 1 \in DOMAIN q /\ r[i] = q[i + 1] /\ i \in Nat /\ i + 1 # 1
  BY <1>1
<1>3. 1 \in DOMAIN q
  BY <1>1
<1>4. \A i \in DOMAIN q : i = 1 \/ (i - 1 \in DOMAIN r /\ r[i - 1] = q[i])
  BY <1>1
<1>5. JobsOK(r, n)
  BY <1>1, <1>2 DEF JobsOK
<1>6. Attempt(h) \/ h.conn \in 1..n
  BY <1>1, <1>3 DEF JobsOK
<1>7. Has(r) => Has(q)
  BY <1>2 DEF Has
<1>8. Attempt(h) => Has(q)
  BY <1>1, <1>3 DEF Has
<1>9. ASSUME Sole(q) PROVE Sole(r) /\ (Attempt(h) => ~Has(r))
  <2>1. Sole(r)
    <3> SUFFICES ASSUME NEW i \in DOMAIN r, NEW j \in DOMAIN r, Attempt(r[i]), Attempt(r[j])
                 PROVE  i = j
      BY DEF Sole
    <3>1. i + 1 = j + 1
      BY <1>2, <1>9 DEF Sole
    <3> QED
      BY <1>2, <3>1
  <2>2. ASSUME Attempt(h), NEW i \in DOMAIN r, Attempt(r[i]) PROVE FALSE
    <3>1. i + 1 = 1
      BY <1>1, <1>2, <1>3, <1>9, <2>2 DEF Sole
    <3> QED
      BY <1>2, <3>1
  <2> QED
    BY <2>1, <2>2 DEF Has
<1>10. ~Attempt(h) => (Has(q) => Has(r))
  BY <1>1, <1>4 DEF Has
<1> QED
  BY <1>1, <1>5, <1>6, <1>7, <1>8, <1>9, <1>10 DEF r, h

(* More connections, and handlers that begin no attempt, added at the end.  *)
Keeps(q, r, n) ==
  /\ JobsOK(r, n)
  /\ Has(r) <=> Has(q)
  /\ Sole(q) => Sole(r)

LEMMA MoreConns ==
  ASSUME NEW q, NEW n \in Nat, NEW m \in Nat, n <= m, JobsOK(q, n)
  PROVE  JobsOK(q, m)
<1>1. \A x \in 1..n : x \in 1..m
  OBVIOUS
<1> QED
  BY <1>1 DEF JobsOK

LEMMA AppendOther ==
  ASSUME NEW n \in Nat, NEW q, JobsOK(q, n), NEW k \in {"start", "send", "close"},
         NEW c \in 1..n, NEW m \in Nat
  PROVE  Keeps(q, Append(q, Job(k, c, m)), n)
<1>1. Job(k, c, m) \in JobType /\ Job(k, c, m).conn = c /\ ~Attempt(Job(k, c, m))
  BY DEF Job, JobType, Attempt
<1> HIDE DEF Job
<1> QED
  BY <1>1, AppendJob DEF Keeps

LEMMA CloseJobsKeep ==
  ASSUME NEW n \in Nat, NEW q, JobsOK(q, n), NEW s \in ClientType, s.conn <= n
  PROVE  Keeps(q, q \o CloseJobs(s), n)
<1>0. q \in Seq(JobType)
  BY DEF JobsOK
<1>1. CASE s.conn = NoConn
  <2>1. q \o CloseJobs(s) = q
    BY <1>0, <1>1, ConcatEmptySeq DEF CloseJobs
  <2> QED
    BY <2>1 DEF Keeps
<1>2. CASE s.conn # NoConn
  <2>1. s.conn \in 1..n
    BY <1>2 DEF ClientType, NoConn
  <2>2. q \o CloseJobs(s) = Append(q, Job("close", s.conn, 0))
    BY <1>0, <1>2, AppendIsConcat DEF CloseJobs
  <2>3. Keeps(q, Append(q, Job("close", s.conn, 0)), n)
    BY <2>1, AppendOther
  <2> QED
    BY <2>2, <2>3
<1> QED
  BY <1>1, <1>2

-----------------------------------------------------------------------------
(* One attempt at a time, and one connection: what holds of the client s,   *)
(* the handlers q, d dials and the Conns k as long as no attempt is begun   *)
(* beside another (overlap).                                                *)
Busy(s, q, d) == s.armed \/ Has(q) \/ d > 0
Attempts(s, q, d) ==
  /\ s.armed => ~Has(q) /\ d = 0
  /\ Has(q) => d = 0
  /\ d <= 1
  /\ Sole(q)
Open(k) == {c \in DOMAIN k : ~k[c].closed}
OneConn(s, q, d, k) ==
  /\ s.connected => ~Busy(s, q, d) /\ ~s.connecting
  /\ \A b, c \in Open(k) : b = c
  /\ Open(k) # {} => s.connected
Waits(s, q, d) == s.connecting /\ ~s.cancelled => Busy(s, q, d)
Safe(s, q, d, k) == Attempts(s, q, d) /\ OneConn(s, q, d, k) /\ Waits(s, q, d)

SafeInv == ~overlap => Safe(client, queue, dials, conns)

(* The types, and two facts about the Conns that the types rest on: a       *)
(* handler refers to a Conn there is, and what is being written is at the   *)
(* front of the outbox.                                                     *)
FrontThere(r) == r.writing /\ ~r.closed => r.outbox # <<>>
ConnsOK(k) ==
  /\ k \in Seq(ConnType) /\ Len(k) <= MaxConns
  /\ \A c \in DOMAIN k : FrontThere(k[c])
TypeInv ==
  /\ client \in ClientType /\ client.conn <= Len(conns)
  /\ JobsOK(queue, Len(conns)) /\ dials \in Nat /\ ConnsOK(conns)
  /\ event \in {"none", "connected", "closed"}
  /\ calls \in 0..MaxCalls /\ sends \in 0..MaxSends

-----------------------------------------------------------------------------
(* The public calls, and the user's OnClose                                 *)

LEMMA CallEffects ==
  ASSUME NEW s \in ClientType
  PROVE  /\ Connect(s) \in ClientType /\ Connect(s).conn = s.conn /\ ~Connect(s).armed
         /\ Connect(s).connected = s.connected
         /\ Reconnect(s) \in ClientType /\ Reconnect(s).conn = s.conn
         /\ Reconnect(s).connected = s.connected
         /\ IF s.connected \/ s.connecting
            THEN /\ ~Reconnect(s).armed /\ Reconnect(s).connecting = s.connecting
                 /\ Reconnect(s).cancelled <=> s.cancelled \/ s.armed
            ELSE Reconnect(s).armed /\ Reconnect(s).connecting
         /\ Close(s) \in ClientType /\ Close(s).conn = 0 /\ Close(s).manual /\ ~Close(s).armed
         /\ Close(s).connected = s.connected /\ Close(s).connecting = s.connecting
         /\ Close(s).cancelled <=> s.cancelled \/ s.armed
<1>1. /\ Connect(s) \in ClientType /\ Connect(s).conn = s.conn /\ ~Connect(s).armed
      /\ Connect(s).connected = s.connected
  BY DEF Connect, ClientType
<1>2. /\ Close(s) \in ClientType /\ Close(s).conn = 0 /\ Close(s).manual /\ ~Close(s).armed
      /\ Close(s).connected = s.connected /\ Close(s).connecting = s.connecting
      /\ Close(s).cancelled <=> s.cancelled \/ s.armed
  BY DEF Close, ClientType, NoConn
<1>3. CASE s.connected \/ s.connecting
  <2>1. Reconnect(s) = [s EXCEPT !.manual = FALSE, !.armed = FALSE,
                                 !.cancelled = s.cancelled \/ s.armed]
    BY <1>3 DEF Reconnect
  <2> QED
    BY <1>1, <1>2, <1>3, <2>1 DEF ClientType
<1>4. CASE ~(s.connected \/ s.connecting)
  <2>1. Reconnect(s) = [s EXCEPT !.manual = FALSE, !.armed = TRUE, !.connecting = TRUE]
    BY <1>4 DEF Reconnect
  <2> QED
    BY <1>1, <1>2, <1>4, <2>1 DEF ClientType
<1> QED
  BY <1>3, <1>4

(* After OnClose and DropClient; a client with no attempt on its hands then  *)
(* waits for the timer, without a connection, or has none still.             *)
LEMMA TellClosedEffect ==
  ASSUME NEW s \in ClientType, NEW n \in Nat, s.conn <= n, NEW q, JobsOK(q, n),
         TellClosed(s, q)
  PROVE  /\ event' = "closed" /\ client' \in ClientType /\ client'.conn <= n
         /\ Keeps(q, queue', n) /\ client'.connected = s.connected
         /\ ~s.armed /\ ~s.connecting =>
              (client'.connecting <=> client'.armed) /\ (client'.armed => ~s.connected)
<1>1. PICK does \in OnCloseDoes :
        LET t == CASE does = "reconnect" -> Reconnect(s)
                   [] does = "close" -> Close(s)
                   [] OTHER -> s
        IN /\ client' = [t EXCEPT !.kept = FALSE]
           /\ queue' = IF does = "close" THEN q \o CloseJobs(s) ELSE q
  BY DEF TellClosed
<1>2. does \in {"nothing", "reconnect", "close"}
  BY AsioAssumption DEF AsioAssumption
<1>3. Keeps(q, queue', n)
  <2>1. Keeps(q, q, n)
    BY DEF Keeps
  <2> QED
    BY <1>1, <2>1, CloseJobsKeep
<1>4. ASSUME NEW t \in ClientType, client' = [t EXCEPT !.kept = FALSE]
      PROVE  /\ client' \in ClientType /\ client'.conn = t.conn
             /\ client'.connected = t.connected /\ client'.armed = t.armed
             /\ client'.connecting = t.connecting
  BY <1>4 DEF ClientType
<1>5. CASE does = "nothing"
  <2>1. client' = [s EXCEPT !.kept = FALSE]
    BY <1>1, <1>5
  <2> QED
    BY <1>3, <1>4, <2>1 DEF TellClosed
<1>6. CASE does = "reconnect"
  <2>1. client' = [Reconnect(s) EXCEPT !.kept = FALSE]
    BY <1>1, <1>6
  <2>2. Reconnect(s) \in ClientType /\ Reconnect(s).conn = s.conn
        /\ Reconnect(s).connected = s.connected
    BY CallEffects
  <2>3. /\ client' \in ClientType /\ client'.conn = Reconnect(s).conn
        /\ client'.connected = Reconnect(s).connected /\ client'.armed = Reconnect(s).armed
        /\ client'.connecting = Reconnect(s).connecting
    BY <1>4, <2>1, <2>2
  <2>4. /\ client' \in ClientType /\ client'.conn = s.conn /\ client'.connected = s.connected
        /\ client'.armed = Reconnect(s).armed /\ client'.connecting = Reconnect(s).connecting
    BY <2>2, <2>3
  <2> QED
    BY <1>3, <2>4, CallEffects DEF TellClosed
<1>7. CASE does = "close"
  <2>1. client' = [Close(s) EXCEPT !.kept = FALSE]
    BY <1>1, <1>7
  <2>2. Close(s) \in ClientType /\ Close(s).conn = 0 /\ ~Close(s).armed
        /\ Close(s).connected = s.connected /\ Close(s).connecting = s.connecting
    BY CallEffects
  <2>3. /\ client' \in ClientType /\ client'.conn = Close(s).conn
        /\ client'.connected = Close(s).connected /\ client'.armed = Close(s).armed
        /\ client'.connecting = Close(s).connecting
    BY <1>4, <2>1, <2>2
  <2>4. /\ client' \in ClientType /\ client'.conn = 0 /\ client'.connected = s.connected
        /\ ~client'.armed /\ client'.connecting = s.connecting
    BY <2>2, <2>3
  <2> QED
    BY <1>3, <2>4 DEF TellClosed
<1> QED
  BY <1>2, <1>5, <1>6, <1>7

-----------------------------------------------------------------------------
(* Nothing under way: an OnClose may set off one attempt, if it finds no     *)
(* connection.                                                               *)
LEMMA TellClosedSafe ==
  ASSUME NEW s \in ClientType, NEW n \in Nat, s.conn <= n, NEW q, JobsOK(q, n),
         TellClosed(s, q), NEW k,
         ~Busy(s, q, 0), ~s.connecting, Sole(q), OneConn(s, q, 0, k)
  PROVE  Safe(client', queue', 0, k)
<1>1. /\ Keeps(q, queue', n) /\ client'.connected = s.connected
      /\ (client'.connecting <=> client'.armed) /\ (client'.armed => ~s.connected)
  BY TellClosedEffect DEF Busy
<1>2. ~Has(queue') /\ Sole(queue')
  BY <1>1 DEF Keeps, Busy
<1>3. Attempts(client', queue', 0) /\ Waits(client', queue', 0)
  BY <1>1, <1>2 DEF Attempts, Waits, Busy
<1>4. OneConn(client', queue', 0, k)
  BY <1>1, <1>2 DEF OneConn, Busy
<1> QED
  BY <1>3, <1>4 DEF Safe

(* A step that neither begins nor ends an attempt, nor touches the Conns.    *)
LEMMA KeepsSafe ==
  ASSUME NEW s, NEW t, NEW q, NEW r, NEW n, Keeps(q, r, n), NEW d, NEW k,
         Safe(s, q, d, k),
         t.armed = s.armed, t.connecting = s.connecting, t.connected = s.connected,
         t.cancelled = s.cancelled
  PROVE  Safe(t, r, d, k)
<1>1. Busy(t, r, d) <=> Busy(s, q, d)
  BY DEF Busy, Keeps
<1>2. Attempts(t, r, d) /\ Waits(t, r, d)
  BY <1>1 DEF Safe, Attempts, Waits, Keeps
<1>3. OneConn(t, r, d, k)
  BY <1>1 DEF Safe, OneConn
<1> QED
  BY <1>2, <1>3 DEF Safe

(* Conns that are closed, or stay open.                                      *)
LEMMA FewerOpen ==
  ASSUME NEW s, NEW q, NEW d, NEW k, NEW l, Safe(s, q, d, k), Open(l) \subseteq Open(k)
  PROVE  Safe(s, q, d, l)
<1>1. OneConn(s, q, d, l)
  BY DEF Safe, OneConn
<1> QED
  BY <1>1 DEF Safe

-----------------------------------------------------------------------------
(* What the handlers do                                                     *)

LEMMA ConnChanged ==
  ASSUME NEW k, ConnsOK(k), NEW c \in DOMAIN k, NEW r \in ConnType, FrontThere(r),
         NEW l, l = [k EXCEPT ![c] = r]
  PROVE  /\ ConnsOK(l) /\ Len(l) = Len(k) /\ DOMAIN l = DOMAIN k
         /\ (k[c].closed => r.closed) => Open(l) \subseteq Open(k)
         /\ r.closed => c \notin Open(l)
<1>0. k \in Seq(ConnType) /\ c \in 1..Len(k)
  BY LenProperties DEF ConnsOK
<1>1. l \in Seq(ConnType) /\ Len(l) = Len(k)
  BY <1>0, ExceptSeq
<1>2. DOMAIN l = DOMAIN k /\ l[c] = r /\ \A x \in DOMAIN k : x # c => l[x] = k[x]
  OBVIOUS
<1>3. ConnsOK(l)
  BY <1>1, <1>2 DEF ConnsOK
<1>4. ASSUME k[c].closed => r.closed PROVE Open(l) \subseteq Open(k)
  BY <1>2, <1>4 DEF Open
<1>5. r.closed => c \notin Open(l)
  BY <1>2 DEF Open
<1> QED
  BY <1>1, <1>2, <1>3, <1>4, <1>5

LEMMA HandleCloseType ==
  ASSUME TypeInv, NEW c \in DOMAIN conns, NEW r \in ConnType,
         NEW q, JobsOK(q, Len(conns)), HandleClose(c, r, q)
  PROVE  /\ ConnsOK(conns') /\ Len(conns') = Len(conns) /\ c \notin Open(conns')
         /\ Open(conns') \subseteq Open(conns)
         /\ client' \in ClientType /\ client'.conn <= Len(conns)
         /\ Keeps(q, queue', Len(conns)) /\ event' \in {"none", "closed"}
<1> DEFINE x == [r EXCEPT !.closed = TRUE, !.outbox = <<>>]
<1>0. Len(conns) \in Nat /\ client \in ClientType /\ client.conn <= Len(conns) /\ ConnsOK(conns)
  BY LenProperties DEF TypeInv, ConnsOK
<1>1. x \in ConnType /\ x.closed
  <2>1. <<>> \in Seq(Nat)
    OBVIOUS
  <2> QED
    BY <2>1 DEF ConnType
<1>6. conns' = [conns EXCEPT ![c] = x]
  BY DEF HandleClose
<1> HIDE DEF x
<1>2. /\ ConnsOK(conns') /\ Len(conns') = Len(conns) /\ c \notin Open(conns')
      /\ Open(conns') \subseteq Open(conns)
  BY <1>0, <1>1, <1>6, ConnChanged DEF FrontThere
<1>3. ASSUME NEW s \in ClientType, s.conn <= Len(conns), Quiet(s, q)
      PROVE  /\ client' \in ClientType /\ client'.conn <= Len(conns)
             /\ Keeps(q, queue', Len(conns)) /\ event' \in {"none", "closed"}
  BY <1>3 DEF Quiet, Keeps
<1>4. CASE conns[c].closed \/ gone
  <2>1. Quiet(client, q)
    BY <1>4 DEF HandleClose
  <2> QED
    BY <1>0, <1>2, <1>3, <2>1
<1>5. CASE ~(conns[c].closed \/ gone)
  <2> DEFINE s == [client EXCEPT !.connected = FALSE, !.conn = NoConn]
  <2>0. s \in ClientType /\ s.conn = 0
    BY <1>0 DEF ClientType, NoConn
  <2>1. s \in ClientType /\ s.conn <= Len(conns)
    BY <1>0, <2>0
  <2>2. IF client.manual THEN Quiet(s, q) ELSE TellClosed(s, q)
    BY <1>5 DEF HandleClose
  <2> HIDE DEF s
  <2>3. CASE Quiet(s, q)
    BY <1>2, <1>3, <2>1, <2>3
  <2>4. CASE TellClosed(s, q)
    BY <1>0, <1>2, <2>1, <2>4, TellClosedEffect
  <2> QED
    BY <2>2, <2>3, <2>4
<1> QED
  BY <1>4, <1>5

LEMMA HandleCloseSafe ==
  ASSUME TypeInv, NEW c \in DOMAIN conns, NEW r \in ConnType,
         NEW q, JobsOK(q, Len(conns)), HandleClose(c, r, q), Safe(client, q, dials, conns)
  PROVE  Safe(client', queue', dials, conns')
<1>0. /\ Len(conns) \in Nat /\ client \in ClientType /\ client.conn <= Len(conns)
      /\ dials \in Nat
  BY LenProperties DEF TypeInv, ConnsOK
<1>1. Open(conns') \subseteq Open(conns) /\ c \notin Open(conns')
  BY HandleCloseType
<1>2. CASE conns[c].closed \/ gone
  <2>1. client' = client /\ queue' = q
    BY <1>2 DEF HandleClose, Quiet
  <2> QED
    BY <1>1, <2>1, FewerOpen
<1>3. CASE ~(conns[c].closed \/ gone)
  <2> DEFINE s == [client EXCEPT !.connected = FALSE, !.conn = NoConn]
  <2>0. /\ s \in ClientType /\ s.conn = 0 /\ ~s.connected
        /\ s.armed = client.armed /\ s.connecting = client.connecting
    BY <1>0 DEF ClientType, NoConn
  <2>1. /\ s \in ClientType /\ s.conn <= Len(conns) /\ ~s.connected
        /\ s.armed = client.armed /\ s.connecting = client.connecting
    BY <1>0, <2>0
  <2>2. IF client.manual THEN Quiet(s, q) ELSE TellClosed(s, q)
    BY <1>3 DEF HandleClose
  <2> HIDE DEF s
  <2>3. c \in Open(conns)
    BY <1>3 DEF Open
  <2>4. client.connected /\ Open(conns') = {}
    BY <1>1, <2>3 DEF Safe, OneConn
  <2>5. ~Busy(client, q, dials) /\ ~client.connecting /\ Sole(q)
    BY <2>4 DEF Safe, OneConn, Attempts
  <2>6. dials = 0
    BY <1>0, <2>5 DEF Busy
  <2>7. ~Busy(s, q, 0) /\ ~s.connecting
    BY <2>1, <2>5 DEF Busy
  <2>8. OneConn(s, q, 0, conns')
    BY <2>1, <2>4 DEF OneConn
  <2>9. CASE Quiet(s, q)
    <3>1. client' = s /\ queue' = q
      BY <2>9 DEF Quiet
    <3> QED
      BY <2>5, <2>6, <2>7, <2>8, <3>1 DEF Safe, Attempts, Waits, Busy
  <2>10. CASE TellClosed(s, q)
    BY <1>0, <2>1, <2>5, <2>6, <2>7, <2>8, <2>10, TellClosedSafe
  <2> QED
    BY <2>2, <2>9, <2>10
<1> QED
  BY <1>2, <1>3

(* The attempt itself.                                                       *)
LEMMA DoConnectType ==
  ASSUME TypeInv, NEW s \in ClientType, s.conn <= Len(conns),
         NEW q, JobsOK(q, Len(conns)), DoConnect(s, q)
  PROVE  /\ client' \in ClientType /\ client'.conn <= Len(conns)
         /\ Keeps(q, queue', Len(conns)) /\ dials' \in Nat /\ event' \in {"none", "closed"}
<1>0. Len(conns) \in Nat /\ dials \in Nat
  BY LenProperties DEF TypeInv, ConnsOK
<1>1. ASSUME NEW t \in ClientType, t.conn = s.conn
      PROVE  /\ Quiet(t, q) =>
                  /\ client' \in ClientType /\ client'.conn <= Len(conns)
                  /\ Keeps(q, queue', Len(conns)) /\ event' \in {"none", "closed"}
             /\ TellClosed(t, q) =>
                  /\ client' \in ClientType /\ client'.conn <= Len(conns)
                  /\ Keeps(q, queue', Len(conns)) /\ event' \in {"none", "closed"}
  <2>1. Quiet(t, q) =>
          /\ client' \in ClientType /\ client'.conn <= Len(conns)
          /\ Keeps(q, queue', Len(conns)) /\ event' \in {"none", "closed"}
    BY <1>1 DEF Quiet, Keeps
  <2>2. TellClosed(t, q) =>
          /\ client' \in ClientType /\ client'.conn <= Len(conns)
          /\ Keeps(q, queue', Len(conns)) /\ event' \in {"none", "closed"}
    BY <1>0, <1>1, TellClosedEffect
  <2> QED
    BY <2>1, <2>2
<1>2. /\ [s EXCEPT !.connecting = FALSE] \in ClientType
      /\ [s EXCEPT !.connecting = FALSE].conn = s.conn
      /\ ResolveFailed(s) \in ClientType /\ ResolveFailed(s).conn = s.conn
  BY DEF ClientType, ResolveFailed
<1>3. CASE Quiet([s EXCEPT !.connecting = FALSE], q) /\ UNCHANGED dials
  BY <1>0, <1>1, <1>2, <1>3
<1>4. CASE TellClosed(ResolveFailed(s), q) /\ UNCHANGED dials
  BY <1>0, <1>1, <1>2, <1>4
<1>5. CASE Quiet(s, q) /\ dials' = dials + 1
  BY <1>0, <1>1, <1>5
<1> QED
  BY <1>3, <1>4, <1>5 DEF DoConnect

LEMMA DoConnectSafe ==
  ASSUME TypeInv, NEW s \in ClientType, s.conn <= Len(conns),
         NEW q, JobsOK(q, Len(conns)), DoConnect(s, q),
         ~Busy(s, q, 0), dials = 0, Sole(q), ~s.connected, Open(conns) = {}
  PROVE  Safe(client', queue', dials', conns)
<1>0. Len(conns) \in Nat
  BY LenProperties DEF TypeInv, ConnsOK
<1> DEFINE t == [s EXCEPT !.connecting = FALSE]
<1>1. /\ t \in ClientType /\ t.conn = s.conn /\ ~t.connecting /\ ~t.connected
      /\ t.armed = s.armed /\ ResolveFailed(s) = t
  BY DEF ClientType, ResolveFailed
<1>2. \/ Quiet(t, q) /\ UNCHANGED dials
      \/ TellClosed(t, q) /\ UNCHANGED dials
      \/ Quiet(s, q) /\ dials' = dials + 1
  BY <1>1 DEF DoConnect
<1> HIDE DEF t
<1>3. ~Busy(t, q, 0) /\ OneConn(t, q, 0, conns)
  BY <1>1 DEF Busy, OneConn
<1>4. CASE Quiet(t, q) /\ UNCHANGED dials
  BY <1>1, <1>3, <1>4 DEF Quiet, Safe, Attempts, Waits, Busy
<1>5. CASE TellClosed(t, q) /\ UNCHANGED dials
  BY <1>0, <1>1, <1>3, <1>5, TellClosedSafe
<1>6. CASE Quiet(s, q) /\ dials' = dials + 1
  <2>1. client' = s /\ queue' = q /\ dials' = 1
    BY <1>6 DEF Quiet
  <2>2. Attempts(s, q, 1) /\ Waits(s, q, 1) /\ OneConn(s, q, 1, conns)
    BY DEF Attempts, Waits, OneConn, Busy
  <2> QED
    BY <2>1, <2>2 DEF Safe
<1> QED
  BY <1>2, <1>4, <1>5, <1>6

-----------------------------------------------------------------------------
(* The steps                                                                *)

LEMMA Known ==
  ASSUME TypeInv
  PROVE  /\ client \in ClientType /\ client.conn <= Len(conns) /\ Len(conns) \in Nat
         /\ JobsOK(queue, Len(conns)) /\ dials \in Nat /\ ConnsOK(conns)
         /\ conns \in Seq(ConnType) /\ DOMAIN conns = 1..Len(conns)
         /\ calls \in 0..MaxCalls /\ sends \in 0..MaxSends /\ MaxCalls \in Nat /\ MaxSends \in Nat
         /\ Underway <=> Busy(client, queue, dials)
BY LenProperties, QueuedHas, AsioAssumption
   DEF TypeInv, ConnsOK, AsioAssumption, Underway, Busy

LEMMA DestroyStep ==
  ASSUME TypeInv, Destroy
  PROVE  TypeInv' /\ (SafeInv => SafeInv')
<1>0. /\ client' = Close(client) /\ queue' = queue \o CloseJobs(client)
      /\ UNCHANGED <<dials, conns, overlap, calls, sends>> /\ event' = "none"
  BY DEF Destroy
<1>1. Keeps(queue, queue', Len(conns))
  BY <1>0, Known, CloseJobsKeep
<1>2. /\ client' \in ClientType /\ client'.conn = 0 /\ client'.manual /\ ~client'.armed
      /\ client'.connected = client.connected /\ client'.connecting = client.connecting
      /\ client'.cancelled <=> client.cancelled \/ client.armed
  BY <1>0, Known, CallEffects
<1>3. TypeInv'
  BY <1>0, <1>1, <1>2, Known DEF TypeInv, Keeps
<1>4. ASSUME Safe(client, queue, dials, conns) PROVE Safe(client', queue', dials, conns)
  <2>1. Attempts(client', queue', dials) /\ Waits(client', queue', dials)
    BY <1>1, <1>2, <1>4 DEF Safe, Attempts, Waits, Keeps, Busy
  <2>2. OneConn(client', queue', dials, conns)
    BY <1>1, <1>2, <1>4 DEF Safe, OneConn, Keeps, Busy
  <2> QED
    BY <2>1, <2>2 DEF Safe
<1> QED
  BY <1>0, <1>3, <1>4 DEF SafeInv

LEMMA AppStep ==
  ASSUME TypeInv, AppCall
  PROVE  TypeInv' /\ (SafeInv => SafeInv')
<1> DEFINE n == Len(conns)
<1>0. /\ UNCHANGED <<dials, conns, sends>> /\ event' = "none" /\ calls' \in 0..MaxCalls
  BY Known DEF AppCall
<1>1. CASE /\ client' = Connect(client)
           /\ queue' = Append(queue, Job("connect", 0, 0))
           /\ overlap' = (overlap \/ Underway \/ client.connected)
  <2>1. Job("connect", 0, 0) \in JobType /\ Attempt(Job("connect", 0, 0))
    BY DEF Job, JobType, Attempt
  <2>2. /\ JobsOK(queue', Len(conns)) /\ Has(queue')
        /\ Sole(queue) /\ ~Has(queue) => Sole(queue')
    BY <1>1, <2>1, Known, AppendJob
  <2>3. /\ client' \in ClientType /\ client'.conn = client.conn /\ ~client'.armed
        /\ client'.connected = client.connected
    BY <1>1, Known, CallEffects
  <2>4. TypeInv'
    BY <1>0, <2>2, <2>3, Known DEF TypeInv
  <2>5. ASSUME SafeInv, ~overlap' PROVE Safe(client', queue', dials, conns)
    <3>1. ~Busy(client, queue, dials) /\ ~client.connected /\ Safe(client, queue, dials, conns)
      BY <1>1, <2>5, Known DEF SafeInv
    <3>2. dials = 0 /\ ~Has(queue) /\ Sole(queue) /\ Open(conns) = {}
      BY <3>1, Known DEF Busy, Safe, Attempts, OneConn
    <3>3. Attempts(client', queue', dials) /\ Waits(client', queue', dials)
      BY <2>2, <2>3, <3>2 DEF Attempts, Waits, Busy
    <3>4. OneConn(client', queue', dials, conns)
      BY <2>3, <3>1, <3>2 DEF OneConn
    <3> QED
      BY <3>3, <3>4 DEF Safe
  <2> QED
    BY <1>0, <2>4, <2>5 DEF SafeInv
<1>2. CASE /\ client' = Reconnect(client) /\ queue' = queue
           /\ overlap' = (overlap \/ (Underway /\ ~client.connecting))
  <2>1. /\ client' \in ClientType /\ client'.conn = client.conn
        /\ client'.connected = client.connected
        /\ IF client.connected \/ client.connecting
           THEN /\ ~client'.armed /\ client'.connecting = client.connecting
                /\ client'.cancelled <=> client.cancelled \/ client.armed
           ELSE client'.armed /\ client'.connecting
    BY <1>2, Known, CallEffects
  <2>2. TypeInv'
    BY <1>0, <1>2, <2>1, Known DEF TypeInv
  <2>3. ASSUME SafeInv, ~overlap' PROVE Safe(client', queue', dials, conns)
    <3>0. /\ Safe(client, queue, dials, conns) /\ queue' = queue
          /\ ~Busy(client, queue, dials) \/ client.connecting
      BY <1>2, <2>3, Known DEF SafeInv
    <3>1. CASE client.connected \/ client.connecting
      <4>1. Attempts(client', queue', dials) /\ Waits(client', queue', dials)
        BY <2>1, <3>0, <3>1 DEF Safe, Attempts, Waits, OneConn, Busy
      <4>2. OneConn(client', queue', dials, conns)
        BY <2>1, <3>0, <3>1 DEF Safe, OneConn, Busy
      <4> QED
        BY <4>1, <4>2 DEF Safe
    <3>2. CASE ~(client.connected \/ client.connecting)
      <4>1. dials = 0 /\ ~Has(queue') /\ Sole(queue') /\ OneConn(client, queue, dials, conns)
        BY <3>0, <3>2, Known DEF Busy, Safe, Attempts
      <4>2. Attempts(client', queue', dials) /\ Waits(client', queue', dials)
        BY <2>1, <3>2, <4>1 DEF Attempts, Waits, Busy
      <4>3. OneConn(client', queue', dials, conns)
        BY <2>1, <3>2, <4>1 DEF OneConn
      <4> QED
        BY <4>2, <4>3 DEF Safe
    <3> QED
      BY <3>1, <3>2
  <2> QED
    BY <1>0, <2>2, <2>3 DEF SafeInv
<1>3. CASE /\ client' = Close(client) /\ queue' = queue \o CloseJobs(client)
           /\ overlap' = overlap
  <2>1. Keeps(queue, queue', Len(conns))
    BY <1>3, Known, CloseJobsKeep
  <2>2. /\ client' \in ClientType /\ client'.conn = 0 /\ client'.manual /\ ~client'.armed
        /\ client'.connected = client.connected /\ client'.connecting = client.connecting
        /\ client'.cancelled <=> client.cancelled \/ client.armed
    BY <1>3, Known, CallEffects
  <2>3. TypeInv'
    BY <1>0, <2>1, <2>2, Known DEF TypeInv, Keeps
  <2>4. ASSUME Safe(client, queue, dials, conns) PROVE Safe(client', queue', dials, conns)
    <3>1. Attempts(client', queue', dials) /\ Waits(client', queue', dials)
      BY <2>1, <2>2, <2>4 DEF Safe, Attempts, Waits, Keeps, Busy
    <3>2. OneConn(client', queue', dials, conns)
      BY <2>1, <2>2, <2>4 DEF Safe, OneConn, Keeps, Busy
    <3> QED
      BY <3>1, <3>2 DEF Safe
  <2> QED
    BY <1>0, <1>3, <2>3, <2>4 DEF SafeInv
<1> QED
  BY <1>1, <1>2, <1>3 DEF AppCall

LEMMA SendStep ==
  ASSUME TypeInv, Send
  PROVE  TypeInv' /\ (SafeInv => SafeInv')
<1>1. client.conn \in 1..Len(conns) /\ sends + 1 \in Nat
  BY Known DEF Send, ClientType, NoConn
<1>2. Keeps(queue, queue', Len(conns))
  BY <1>1, Known, AppendOther DEF Send
<1>3. TypeInv'
  BY <1>2, Known DEF TypeInv, Keeps, Send
<1>4. UNCHANGED <<client, dials, conns, overlap>>
  BY DEF Send
<1>5. Safe(client, queue, dials, conns) => Safe(client', queue', dials, conns)
  BY <1>2, <1>4, KeepsSafe
<1> QED
  BY <1>3, <1>4, <1>5 DEF SafeInv

LEMMA TimerStep ==
  ASSUME TypeInv, TimerFires
  PROVE  TypeInv' /\ (SafeInv => SafeInv')
<1>0. /\ client.armed /\ client' = [client EXCEPT !.armed = FALSE]
      /\ queue' = Append(queue, Job("timer", 0, 0)) /\ event' = "none"
      /\ UNCHANGED <<dials, conns, overlap, calls, sends>>
  BY DEF TimerFires
<1>1. Job("timer", 0, 0) \in JobType /\ Attempt(Job("timer", 0, 0))
  BY DEF Job, JobType, Attempt
<1>2. /\ JobsOK(queue', Len(conns)) /\ Has(queue')
      /\ Sole(queue) /\ ~Has(queue) => Sole(queue')
  BY <1>0, <1>1, Known, AppendJob
<1>3. /\ client' \in ClientType /\ client'.conn = client.conn /\ ~client'.armed
      /\ client'.connected = client.connected
  BY <1>0, Known DEF ClientType
<1>4. TypeInv'
  BY <1>0, <1>2, <1>3, Known DEF TypeInv
<1>5. ASSUME Safe(client, queue, dials, conns) PROVE Safe(client', queue', dials, conns)
  <2>1. dials = 0 /\ ~Has(queue) /\ Sole(queue) /\ ~client.connected /\ Open(conns) = {}
    BY <1>0, <1>5 DEF Busy, Safe, Attempts, OneConn
  <2>2. Attempts(client', queue', dials) /\ Waits(client', queue', dials)
    BY <1>2, <1>3, <2>1 DEF Attempts, Waits, Busy
  <2>3. OneConn(client', queue', dials, conns)
    BY <1>3, <2>1 DEF OneConn
  <2> QED
    BY <2>2, <2>3 DEF Safe
<1> QED
  BY <1>0, <1>4, <1>5 DEF SafeInv

(* The answer to a dial: it was under way, so that there was no connection;  *)
(* the new one is the only one.                                              *)
LEMMA DialStep ==
  ASSUME TypeInv, DialDone
  PROVE  TypeInv' /\ (SafeInv => SafeInv')
<1> DEFINE s == [client EXCEPT !.connecting = FALSE]
<1>0. /\ dials > 0 /\ dials' = dials - 1 /\ dials' \in Nat
      /\ UNCHANGED <<overlap, calls, sends>>
  BY Known DEF DialDone
<1>1. /\ s \in ClientType /\ s.conn = client.conn /\ ~s.connecting
      /\ s.connected = client.connected /\ s.armed = client.armed
  BY Known DEF ClientType
<1>2. ASSUME Safe(client, queue, dials, conns)
      PROVE  /\ dials' = 0 /\ ~Busy(s, queue, 0) /\ Sole(queue)
             /\ ~client.connected /\ Open(conns) = {}
  BY <1>0, <1>1, <1>2, Known DEF Safe, Attempts, OneConn, Busy
<1>3. CASE TellClosed(s, queue) /\ UNCHANGED conns
  <2>1. /\ event' = "closed" /\ client' \in ClientType /\ client'.conn <= Len(conns)
        /\ Keeps(queue, queue', Len(conns))
    BY <1>1, <1>3, Known, TellClosedEffect
  <2>2. TypeInv'
    BY <1>0, <1>3, <2>1, Known DEF TypeInv, Keeps
  <2>3. ASSUME Safe(client, queue, dials, conns) PROVE Safe(client', queue', dials', conns)
    <3>1. OneConn(s, queue, 0, conns)
      BY <1>1, <1>2, <2>3 DEF OneConn
    <3>2. Safe(client', queue', 0, conns)
      BY <1>1, <1>2, <1>3, <2>3, <3>1, Known, TellClosedSafe
    <3> QED
      BY <1>2, <2>3, <3>2
  <2> QED
    BY <1>0, <1>3, <2>2, <2>3 DEF SafeInv
<1>4. CASE Quiet(s, queue) /\ UNCHANGED conns
  <2>1. client' = s /\ queue' = queue /\ event' = "none"
    BY <1>4 DEF Quiet
  <2>2. TypeInv'
    BY <1>0, <1>1, <1>4, <2>1, Known DEF TypeInv
  <2>3. ASSUME Safe(client, queue, dials, conns) PROVE Safe(client', queue', dials', conns)
    BY <1>1, <1>2, <2>1, <2>3 DEF Safe, Attempts, Waits, OneConn, Busy
  <2> QED
    BY <1>0, <1>4, <2>2, <2>3 DEF SafeInv
<1>5. CASE LET c == Len(conns) + 1 IN
           /\ c <= MaxConns
           /\ conns' = Append(conns, [closed |-> FALSE, reading |-> FALSE, started |-> FALSE,
                                      outbox |-> <<>>, writing |-> FALSE])
           /\ client' = [s EXCEPT !.conn = c, !.connected = TRUE]
           /\ queue' = Append(queue, Job("start", c, 0))
           /\ event' = "connected"
  <2> DEFINE m == Len(conns) + 1
             new == [closed |-> FALSE, reading |-> FALSE, started |-> FALSE,
                     outbox |-> <<>>, writing |-> FALSE]
  <2>1. m \in Nat /\ m \in 1..m /\ Len(conns) <= m
    BY Known
  <2>2. new \in ConnType /\ FrontThere(new)
    <3>1. <<>> \in Seq(Nat)
      OBVIOUS
    <3> QED
      BY <3>1 DEF ConnType, FrontThere
  <2>3. /\ m <= MaxConns /\ conns' = Append(conns, new) /\ event' = "connected"
        /\ client' = [s EXCEPT !.conn = m, !.connected = TRUE]
        /\ queue' = Append(queue, Job("start", m, 0))
    BY <1>5
  <2> HIDE DEF new
  <2>4. /\ conns' \in Seq(ConnType) /\ Len(conns') = m /\ DOMAIN conns' = 1..m
        /\ \A c \in DOMAIN conns : conns'[c] = conns[c]
        /\ conns'[m] = new
    BY <2>2, <2>3, Known, AppendProperties, LenProperties
  <2>5. \A c \in DOMAIN conns' : c \in DOMAIN conns \/ c = m
    BY <2>1, <2>4, Known
  <2>6. ConnsOK(conns')
    BY <2>2, <2>3, <2>4, <2>5, Known DEF ConnsOK
  <2>7. Keeps(queue, queue', m)
    BY <2>1, <2>3, Known, MoreConns, AppendOther
  <2>8. /\ client' \in ClientType /\ client'.conn = m /\ client'.armed = client.armed
        /\ ~client'.connecting /\ client'.connected
    BY <1>1, <2>1, <2>3 DEF ClientType
  <2>9. TypeInv'
    BY <1>0, <2>1, <2>3, <2>4, <2>6, <2>7, <2>8, Known DEF TypeInv, Keeps
  <2>10. ASSUME Safe(client, queue, dials, conns) PROVE Safe(client', queue', dials', conns')
    <3>1. Open(conns') \subseteq {m}
      BY <1>2, <2>4, <2>5, <2>10 DEF Open
    <3>2. ~Busy(client', queue', dials') /\ Sole(queue')
      BY <1>1, <1>2, <2>7, <2>8, <2>10 DEF Busy, Keeps
    <3>3. OneConn(client', queue', dials', conns')
      BY <2>8, <3>1, <3>2 DEF OneConn
    <3>4. dials' = 0
      BY <1>2, <2>10
    <3> QED
      BY <2>8, <3>2, <3>3, <3>4 DEF Safe, Attempts, Waits, Busy
  <2> QED
    BY <1>0, <2>9, <2>10 DEF SafeInv
<1> QED
  BY <1>3, <1>4, <1>5 DEF DialDone

(* A handler that leaves the client alone, and the Conn c as open as it was. *)
LEMMA ChangesStep ==
  ASSUME TypeInv, NEW c \in DOMAIN conns, NEW r \in ConnType, FrontThere(r),
         r.closed = conns[c].closed, NEW q, JobsOK(q, Len(conns)), Changes(c, r, q),
         UNCHANGED <<dials, overlap, calls, sends>>
  PROVE  /\ TypeInv'
         /\ Safe(client, q, dials, conns) => Safe(client', queue', dials', conns')
<1>0. client' = client /\ queue' = q /\ event' = "none" /\ conns' = [conns EXCEPT ![c] = r]
  BY DEF Changes, Quiet
<1>1. ConnsOK(conns') /\ Len(conns') = Len(conns) /\ Open(conns') \subseteq Open(conns)
  BY <1>0, Known, ConnChanged
<1>2. TypeInv'
  BY <1>0, <1>1, Known DEF TypeInv
<1>3. Safe(client, q, dials, conns) => Safe(client, q, dials, conns')
  BY <1>1, FewerOpen
<1> QED
  BY <1>0, <1>2, <1>3

LEMMA CloseStep ==
  ASSUME TypeInv, NEW c \in DOMAIN conns, NEW r \in ConnType,
         NEW q, JobsOK(q, Len(conns)), HandleClose(c, r, q),
         UNCHANGED <<dials, overlap, calls, sends>>
  PROVE  /\ TypeInv'
         /\ Safe(client, q, dials, conns) => Safe(client', queue', dials', conns')
<1>1. /\ ConnsOK(conns') /\ Len(conns') = Len(conns)
      /\ client' \in ClientType /\ client'.conn <= Len(conns)
      /\ Keeps(q, queue', Len(conns)) /\ event' \in {"none", "closed"}
  BY HandleCloseType
<1>2. TypeInv'
  BY <1>1, Known DEF TypeInv, Keeps
<1>3. Safe(client, q, dials, conns) => Safe(client', queue', dials, conns')
  BY HandleCloseSafe
<1> QED
  BY <1>2, <1>3

(* What DoWrite begins to write is at the front of the outbox.               *)
LEMMA DoWriteEffect ==
  ASSUME NEW r \in ConnType
  PROVE  DoWrite(r) \in ConnType /\ FrontThere(DoWrite(r)) /\ DoWrite(r).closed = r.closed
<1>1. (r.outbox # <<>> /\ ~r.closed) \in BOOLEAN
  OBVIOUS
<1> DEFINE w == r.outbox # <<>> /\ ~r.closed
<1>2. DoWrite(r) = [r EXCEPT !.writing = w] /\ w \in BOOLEAN
  BY DEF DoWrite
<1>3. DoWrite(r).outbox = r.outbox /\ DoWrite(r).closed = r.closed /\ DoWrite(r).writing = w
  BY <1>2 DEF ConnType
<1>4. FrontThere(DoWrite(r))
  BY <1>3 DEF FrontThere
<1> HIDE DEF w
<1>5. DoWrite(r) \in ConnType
  BY <1>2 DEF ConnType
<1> QED
  BY <1>3, <1>4, <1>5

(* t is the Conn k after it took the message m to send.                      *)
Takes(k, m, t) ==
  LET r == [k EXCEPT !.outbox = IF k.closed THEN @ ELSE Append(@, m)]
  IN t = IF r.writing THEN r ELSE DoWrite(r)

LEMMA SendEffect ==
  ASSUME NEW k \in ConnType, FrontThere(k), NEW m \in Nat, NEW t, Takes(k, m, t)
  PROVE  t \in ConnType /\ FrontThere(t) /\ t.closed = k.closed
<1> DEFINE o == IF k.closed THEN k.outbox ELSE Append(k.outbox, m)
           r == [k EXCEPT !.outbox = o]
<1>1. o \in Seq(Nat) /\ (~k.closed => o # <<>>)
  <2>1. k.outbox \in Seq(Nat)
    BY DEF ConnType
  <2>2. ASSUME NEW u \in Seq(Nat) PROVE Append(u, m) \in Seq(Nat) /\ Append(u, m) # <<>>
    BY AppendProperties
  <2> QED
    BY <2>1, <2>2
<1>2. t = IF r.writing THEN r ELSE DoWrite(r)
  BY DEF Takes
<1> HIDE DEF o
<1>3. r \in ConnType /\ r.outbox = o /\ r.closed = k.closed
  BY <1>1 DEF ConnType
<1> HIDE DEF r
<1>4. FrontThere(r)
  BY <1>1, <1>3 DEF FrontThere
<1>5. DoWrite(r) \in ConnType /\ FrontThere(DoWrite(r)) /\ DoWrite(r).closed = r.closed
  BY <1>3, DoWriteEffect
<1> QED
  BY <1>2, <1>3, <1>4, <1>5

LEMMA JobStep ==
  ASSUME TypeInv, RunJob
  PROVE  TypeInv' /\ (SafeInv => SafeInv')
<1> DEFINE job == Head(queue)  q == Tail(queue)  c == job.conn
<1>0. /\ UNCHANGED <<overlap, calls, sends>> /\ queue # <<>>
  BY DEF RunJob
<1>1. /\ job \in JobType /\ JobsOK(q, Len(conns))
      /\ ~Attempt(job) => c \in DOMAIN conns
      /\ Attempt(job) => Has(queue)
      /\ Has(q) => Has(queue)
      /\ Sole(queue) => Sole(q) /\ (Attempt(job) => ~Has(q))
      /\ ~Attempt(job) => (Has(queue) => Has(q))
  BY <1>0, Known, FirstJob
<1>2. /\ ~Attempt(job) => Keeps(queue, q, Len(conns))
      /\ job.msg \in Nat
  BY <1>1 DEF Keeps, JobType
<1>3. \/ /\ job.kind = "connect"
         /\ DoConnect(client, q) /\ UNCHANGED conns
      \/ /\ job.kind = "timer"
         /\ DoConnect([client EXCEPT !.connecting = FALSE], q) /\ UNCHANGED conns
      \/ /\ job.kind = "start"
         /\ Changes(c, [conns[c] EXCEPT !.started = ~conns[c].closed,
                                        !.reading = ~conns[c].closed], q)
         /\ UNCHANGED dials
      \/ /\ job.kind = "send"
         /\ LET r == [conns[c] EXCEPT !.outbox = IF conns[c].closed THEN @ ELSE Append(@, job.msg)]
            IN Changes(c, IF r.writing THEN r ELSE DoWrite(r), q)
         /\ UNCHANGED dials
      \/ /\ job.kind = "close"
         /\ HandleClose(c, conns[c], q) /\ UNCHANGED dials
  BY DEF RunJob
<1> HIDE DEF job, q
<1>4. ASSUME Safe(client, queue, dials, conns), ~Attempt(job) PROVE Safe(client, q, dials, conns)
  BY <1>2, <1>4, KeepsSafe
<1>5. ASSUME Attempt(job), NEW s \in ClientType, s.conn = client.conn,
             s.armed = client.armed, s.connected = client.connected,
             DoConnect(s, q), UNCHANGED conns
      PROVE  TypeInv' /\ (SafeInv => SafeInv')
  <2>1. /\ client' \in ClientType /\ client'.conn <= Len(conns)
        /\ Keeps(q, queue', Len(conns)) /\ dials' \in Nat /\ event' \in {"none", "closed"}
    BY <1>1, <1>5, Known, DoConnectType
  <2>2. TypeInv'
    BY <1>0, <1>5, <2>1, Known DEF TypeInv, Keeps
  <2>3. ASSUME Safe(client, queue, dials, conns) PROVE Safe(client', queue', dials', conns)
    <3>1. Has(queue) /\ Sole(queue)
      BY <1>1, <1>5, <2>3 DEF Safe, Attempts
    <3>2. dials = 0 /\ ~client.armed /\ ~Has(q) /\ Sole(q)
      BY <1>1, <1>5, <2>3, <3>1 DEF Safe, Attempts
    <3>3. ~client.connected /\ Open(conns) = {}
      BY <2>3, <3>1 DEF Safe, OneConn, Busy
    <3>4. ~Busy(s, q, 0) /\ ~s.connected /\ s.conn <= Len(conns)
      BY <1>5, <3>2, <3>3, Known DEF Busy
    <3> QED
      BY <1>1, <1>5, <3>2, <3>3, <3>4, DoConnectSafe
  <2> QED
    BY <1>0, <1>5, <2>2, <2>3 DEF SafeInv
<1>6. CASE job.kind = "connect" /\ DoConnect(client, q) /\ UNCHANGED conns
  <2>1. Attempt(job)
    BY <1>6 DEF Attempt
  <2> QED
    BY <1>5, <1>6, <2>1, Known
<1>7. CASE /\ job.kind = "timer"
           /\ DoConnect([client EXCEPT !.connecting = FALSE], q) /\ UNCHANGED conns
  <2> DEFINE s == [client EXCEPT !.connecting = FALSE]
  <2>1. Attempt(job)
    BY <1>7 DEF Attempt
  <2>2. /\ s \in ClientType /\ s.conn = client.conn /\ s.armed = client.armed
        /\ s.connected = client.connected
    BY Known DEF ClientType
  <2>3. DoConnect(s, q) /\ UNCHANGED conns
    BY <1>7
  <2> HIDE DEF s
  <2> QED
    BY <1>5, <2>1, <2>2, <2>3
<1>8. ASSUME ~Attempt(job), UNCHANGED dials, NEW r \in ConnType, FrontThere(r),
             r.closed = conns[c].closed, Changes(c, r, q)
      PROVE  TypeInv' /\ (SafeInv => SafeInv')
  <2>1. /\ TypeInv'
        /\ Safe(client, q, dials, conns) => Safe(client', queue', dials', conns')
    BY <1>0, <1>1, <1>8, ChangesStep
  <2> QED
    BY <1>0, <1>4, <1>8, <2>1 DEF SafeInv
<1>9. CASE /\ job.kind = "start"
           /\ Changes(c, [conns[c] EXCEPT !.started = ~conns[c].closed,
                                          !.reading = ~conns[c].closed], q)
           /\ UNCHANGED dials
  <2> DEFINE r == [conns[c] EXCEPT !.started = ~conns[c].closed, !.reading = ~conns[c].closed]
  <2>1. ~Attempt(job)
    BY <1>9 DEF Attempt
  <2>2. conns[c] \in ConnType /\ FrontThere(conns[c])
    BY <1>1, <2>1, Known DEF ConnsOK
  <2>3. /\ r \in ConnType /\ r.closed = conns[c].closed /\ r.writing = conns[c].writing
        /\ r.outbox = conns[c].outbox
    BY <2>2 DEF ConnType
  <2>4. Changes(c, r, q)
    BY <1>9
  <2> HIDE DEF r
  <2>5. FrontThere(r)
    BY <2>2, <2>3 DEF FrontThere
  <2> QED
    BY <1>8, <1>9, <2>1, <2>3, <2>4, <2>5
<1>10. CASE /\ job.kind = "send"
            /\ LET r == [conns[c] EXCEPT !.outbox = IF conns[c].closed THEN @
                                                    ELSE Append(@, job.msg)]
               IN Changes(c, IF r.writing THEN r ELSE DoWrite(r), q)
            /\ UNCHANGED dials
  <2>1. ~Attempt(job)
    BY <1>10 DEF Attempt
  <2>2. conns[c] \in ConnType /\ FrontThere(conns[c])
    BY <1>1, <2>1, Known DEF ConnsOK
  <2>3. PICK t : Takes(conns[c], job.msg, t) /\ Changes(c, t, q)
    BY <1>10 DEF Takes
  <2>4. t \in ConnType /\ FrontThere(t) /\ t.closed = conns[c].closed
    BY <1>2, <2>2, <2>3, SendEffect
  <2> QED
    BY <1>8, <1>10, <2>1, <2>3, <2>4
<1>11. CASE job.kind = "close" /\ HandleClose(c, conns[c], q) /\ UNCHANGED dials
  <2>1. ~Attempt(job)
    BY <1>11 DEF Attempt
  <2>2. c \in DOMAIN conns /\ conns[c] \in ConnType
    BY <1>1, <2>1, Known
  <2>3. /\ TypeInv'
        /\ Safe(client, q, dials, conns) => Safe(client', queue', dials', conns')
    BY <1>0, <1>1, <1>11, <2>2, CloseStep
  <2> QED
    BY <1>0, <1>4, <2>1, <2>3 DEF SafeInv
<1> QED
  BY <1>3, <1>6, <1>7, <1>9, <1>10, <1>11

LEMMA ReadStep ==
  ASSUME TypeInv, ReadDone
  PROVE  TypeInv' /\ (SafeInv => SafeInv')
<1>1. PICK c \in DOMAIN conns :
        \/ Changes(c, conns[c], queue)
        \/ HandleClose(c, [conns[c] EXCEPT !.reading = FALSE], queue)
  BY DEF ReadDone
<1>2. UNCHANGED <<dials, overlap, calls, sends>>
  BY DEF ReadDone
<1>3. conns[c] \in ConnType /\ FrontThere(conns[c])
  BY Known DEF ConnsOK
<1>4. [conns[c] EXCEPT !.reading = FALSE] \in ConnType
  BY <1>3 DEF ConnType
<1>5. /\ TypeInv'
      /\ Safe(client, queue, dials, conns) => Safe(client', queue', dials', conns')
  BY <1>1, <1>2, <1>3, <1>4, Known, ChangesStep, CloseStep
<1> QED
  BY <1>2, <1>5 DEF SafeInv

LEMMA WriteStep ==
  ASSUME TypeInv, WriteDone
  PROVE  TypeInv' /\ (SafeInv => SafeInv')
<1>1. PICK c \in DOMAIN conns :
        /\ conns[c].writing
        /\ LET r == conns[c]
               sent == [r EXCEPT !.outbox = Tail(@)]
               lost == [r EXCEPT !.outbox = IF @ = <<>> THEN @ ELSE Tail(@), !.writing = FALSE]
           IN \/ ~r.closed /\ Changes(c, DoWrite(sent), queue)
              \/ HandleClose(c, lost, queue)
  BY DEF WriteDone
<1>2. UNCHANGED <<dials, overlap, calls, sends>>
  BY DEF WriteDone
<1> DEFINE r == conns[c]
           o == IF r.outbox = <<>> THEN r.outbox ELSE Tail(r.outbox)
           sent == [r EXCEPT !.outbox = Tail(r.outbox)]
           lost == [r EXCEPT !.outbox = o, !.writing = FALSE]
<1>3. /\ r \in ConnType /\ FrontThere(r) /\ r.writing
      /\ \/ ~r.closed /\ Changes(c, DoWrite(sent), queue)
         \/ HandleClose(c, lost, queue)
  BY <1>1, Known DEF ConnsOK
<1>4. ASSUME NEW u, u \in Seq(Nat), u # <<>> PROVE Tail(u) \in Seq(Nat)
  BY <1>4, HeadTailProperties
<1> SUFFICES /\ TypeInv'
             /\ Safe(client, queue, dials, conns) => Safe(client', queue', dials', conns')
  BY <1>2 DEF SafeInv
<1>5. CASE ~r.closed /\ Changes(c, DoWrite(sent), queue)
  <2>1. r.outbox \in Seq(Nat) /\ r.outbox # <<>>
    BY <1>3, <1>5 DEF ConnType, FrontThere
  <2>2. Tail(r.outbox) \in Seq(Nat)
    BY <1>4, <2>1
  <2>3. sent \in ConnType /\ sent.closed = r.closed
    BY <1>3, <2>2 DEF ConnType
  <2> HIDE DEF sent
  <2>4. DoWrite(sent) \in ConnType /\ FrontThere(DoWrite(sent)) /\ DoWrite(sent).closed = r.closed
    BY <2>3, DoWriteEffect
  <2> QED
    BY <1>2, <1>5, <2>4, Known, ChangesStep
<1>6. CASE HandleClose(c, lost, queue)
  <2>1. o \in Seq(Nat)
    BY <1>3, <1>4 DEF ConnType
  <2> HIDE DEF o
  <2>2. lost \in ConnType
    BY <1>3, <2>1 DEF ConnType
  <2> HIDE DEF lost
  <2> QED
    BY <1>2, <1>6, <2>2, Known, CloseStep
<1> QED
  BY <1>3, <1>5, <1>6

-----------------------------------------------------------------------------
(* The invariant                                                             *)

LEMMA InvInit == Init => TypeInv /\ SafeInv
<1> SUFFICES ASSUME Init PROVE TypeInv /\ SafeInv
  OBVIOUS
<1> DEFINE j == Job("connect", 0, 0)
<1>1. j \in JobType /\ Attempt(j)
  BY DEF Job, JobType, Attempt
<1>2. queue = <<j>> /\ conns = <<>> /\ dials = 0 /\ calls = 0 /\ sends = 0 /\ event = "none"
  BY DEF Init
<1>3. /\ client \in ClientType /\ client.conn = 0 /\ ~client.armed /\ ~client.connected
  BY DEF Init, ClientType, NoConn
<1> HIDE DEF j
<1>4. queue \in Seq(JobType) /\ DOMAIN queue = {1} /\ queue[1] = j
  BY <1>1, <1>2
<1>5. JobsOK(queue, 0) /\ Has(queue) /\ Sole(queue)
  BY <1>1, <1>4 DEF JobsOK, Has, Sole
<1>6. ConnsOK(conns) /\ Open(conns) = {} /\ Len(conns) = 0
  <2>1. conns \in Seq(ConnType) /\ Len(conns) = 0 /\ DOMAIN conns = {}
    BY <1>2
  <2>2. MaxConns \in Nat
    BY AsioAssumption DEF AsioAssumption
  <2> QED
    BY <2>1, <2>2 DEF ConnsOK, Open
<1>7. TypeInv
  BY <1>2, <1>3, <1>5, <1>6, AsioAssumption DEF TypeInv, AsioAssumption
<1>8. Attempts(client, queue, dials) /\ Waits(client, queue, dials)
  BY <1>2, <1>3, <1>5 DEF Attempts, Waits, Busy
<1>9. OneConn(client, queue, dials, conns)
  BY <1>3, <1>6 DEF OneConn
<1> QED
  BY <1>7, <1>8, <1>9 DEF SafeInv, Safe

LEMMA InvStep == TypeInv /\ SafeInv /\ [Next]_vars => TypeInv' /\ SafeInv'
<1> SUFFICES ASSUME TypeInv, SafeInv, [Next]_vars PROVE TypeInv' /\ SafeInv'
  OBVIOUS
<1>1. CASE Destroy
  BY <1>1, DestroyStep
<1>2. CASE AppCall
  BY <1>2, AppStep
<1>3. CASE Send
  BY <1>3, SendStep
<1>4. CASE RunJob
  BY <1>4, JobStep
<1>5. CASE DialDone
  BY <1>5, DialStep
<1>6. CASE TimerFires
  BY <1>6, TimerStep
<1>7. CASE ReadDone
  BY <1>7, ReadStep
<1>8. CASE WriteDone
  BY <1>8, WriteStep
<1>9. CASE UNCHANGED vars
  BY <1>9 DEF vars, TypeInv, SafeInv
<1> QED
  BY <1>1, <1>2, <1>3, <1>4, <1>5, <1>6, <1>7, <1>8, <1>9 DEF Next, Io

LEMMA InvCorrect == Spec => [](TypeInv /\ SafeInv)
<1>1. Init => TypeInv /\ SafeInv
  BY InvInit
<1>2. (TypeInv /\ SafeInv) /\ [Next]_vars => (TypeInv /\ SafeInv)'
  BY InvStep
<1> QED
  BY <1>1, <1>2, PTL DEF Spec

(* The members of the client, the queue and the Conns keep their types, and  *)
(* a Client never refers to a Conn that was not made (asio.hpp, the members). *)
THEOREM TypeCorrect == Spec => []TypeOK
<1>1. TypeInv => TypeOK
  <2> SUFFICES ASSUME TypeInv PROVE TypeOK
    OBVIOUS
  <2>1. client.conn \in 0..Len(conns)
    BY Known DEF ClientType
  <2>2. client \in [manual : BOOLEAN, connecting : BOOLEAN, connected : BOOLEAN,
                    conn : 0..Len(conns), armed : BOOLEAN, kept : BOOLEAN,
                    cancelled : BOOLEAN]
    BY <2>1, Known DEF ClientType
  <2>3. \A i \in DOMAIN queue : queue[i].kind \in {"connect", "timer", "start", "send", "close"}
    <3>1. \A i \in DOMAIN queue : queue[i] \in JobType
      BY Known, ElementOfSeq, LenProperties DEF JobsOK
    <3> QED
      BY <3>1 DEF JobType
  <2> QED
    BY <2>2, <2>3 DEF TypeOK, TypeInv, ConnsOK
<1> QED
  BY <1>1, InvCorrect, PTL

(* connecting_ stands for an attempt that is under way, so that a Reconnect  *)
(* it refuses (449-454) is never lost, with two exceptions: a timer that was *)
(* cancelled while it waited, by Close or by another Reconnect, leaves the   *)
(* flag set for ever (463); and an attempt begun beside another (overlap).   *)
(* The invariant is Safe: there is one attempt, in one place, and none       *)
(* beside a connection; so that what ends it ends the only one, and clears   *)
(* the flag.                                                                 *)
THEOREM ConnectingIsUnderway == Spec => []NeverStuck
<1>1. TypeInv /\ SafeInv => NeverStuck
  BY Known DEF NeverStuck, SafeInv, Safe, Waits
<1> QED
  BY <1>1, InvCorrect, PTL

(* The same holds of the connections: as long as no attempt overlaps another *)
(* there is one at most, and the client that has it makes no other.          *)
AtMostOneConn == ~overlap => \A b, c \in Open(conns) : b = c /\ client.connected /\ ~Underway

THEOREM OneConnection == Spec => []AtMostOneConn
<1>1. TypeInv /\ SafeInv => AtMostOneConn
  BY Known DEF AtMostOneConn, SafeInv, Safe, OneConn
<1> QED
  BY <1>1, InvCorrect, PTL

-----------------------------------------------------------------------------
(* After Close                                                               *)

Inert == /\ event' # "connected"
         /\ Underway' /\ ~Underway => calls' # calls \/ event' = "closed"

(* A step that tells nothing, and leaves the timer, the handlers of attempts *)
(* and the dials as they were, or fewer.                                     *)
LEMMA NoneBegun ==
  ASSUME event' # "connected", client'.armed => client.armed, dials' = dials,
         Has(queue') => Has(queue)
  PROVE  Inert
BY QueuedHas DEF Inert, Underway

LEMMA ToldOfEnd ==
  ASSUME event' = "closed"
  PROVE  Inert
BY DEF Inert

(* The Conn's end, told of or not, when only the handlers q are left.        *)
LEMMA HandleCloseInert ==
  ASSUME TypeInv, NEW c, NEW r, NEW q, Has(q) => Has(queue),
         HandleClose(c, r, q), dials' = dials
  PROVE  Inert
<1> DEFINE s == [client EXCEPT !.connected = FALSE, !.conn = NoConn]
<1>1. s.armed = client.armed
  BY Known DEF ClientType
<1>2. Quiet(client, q) \/ Quiet(s, q) \/ event' = "closed"
  BY DEF HandleClose, TellClosed
<1> HIDE DEF s
<1>3. CASE Quiet(client, q) \/ Quiet(s, q)
  BY <1>1, <1>3, NoneBegun DEF Quiet
<1> QED
  BY <1>2, <1>3, ToldOfEnd

LEMMA ChangesInert ==
  ASSUME NEW c, NEW r, NEW q, Has(q) => Has(queue), Changes(c, r, q), dials' = dials
  PROVE  Inert
BY NoneBegun DEF Changes, Quiet

LEMMA JobInert ==
  ASSUME TypeInv, RunJob, client.manual
  PROVE  Inert
<1> DEFINE job == Head(queue)  q == Tail(queue)
<1>1. Has(q) => Has(queue)
  BY Known, FirstJob DEF RunJob
<1>2. \/ DoConnect(client, q)
      \/ DoConnect([client EXCEPT !.connecting = FALSE], q)
      \/ \E r : Changes(job.conn, r, q) /\ dials' = dials
      \/ \E r : HandleClose(job.conn, r, q) /\ dials' = dials
  <2>1. CASE DoConnect(client, q)
    BY <2>1
  <2>2. CASE DoConnect([client EXCEPT !.connecting = FALSE], q)
    BY <2>2
  <2>3. CASE \E r : Changes(job.conn, r, q) /\ dials' = dials
    BY <2>3
  <2>4. CASE \E r : HandleClose(job.conn, r, q) /\ dials' = dials
    BY <2>4
  <2> QED
    BY <2>1, <2>2, <2>3, <2>4 DEF RunJob
<1> HIDE DEF job, q
<1>3. ASSUME NEW s \in ClientType, s.manual, s.armed = client.armed, DoConnect(s, q)
      PROVE  Inert
  <2>1. Quiet([s EXCEPT !.connecting = FALSE], q) /\ UNCHANGED dials
    BY <1>3 DEF DoConnect
  <2>2. [s EXCEPT !.connecting = FALSE].armed = client.armed
    BY <1>3 DEF ClientType
  <2> QED
    BY <1>1, <2>1, <2>2, NoneBegun DEF Quiet
<1>4. CASE DoConnect(client, q)
  BY <1>3, <1>4, Known
<1>5. CASE DoConnect([client EXCEPT !.connecting = FALSE], q)
  <2> DEFINE s == [client EXCEPT !.connecting = FALSE]
  <2>1. s \in ClientType /\ s.manual /\ s.armed = client.armed
    BY Known DEF ClientType
  <2>2. DoConnect(s, q)
    BY <1>5
  <2> HIDE DEF s
  <2> QED
    BY <1>3, <2>1, <2>2
<1>6. CASE \E r : Changes(job.conn, r, q) /\ dials' = dials
  BY <1>1, <1>6, ChangesInert
<1>7. CASE \E r : HandleClose(job.conn, r, q) /\ dials' = dials
  BY <1>1, <1>7, HandleCloseInert
<1> QED
  BY <1>2, <1>4, <1>5, <1>6, <1>7

(* A connect that succeeds after Close is dropped; one that is refused is    *)
(* still told to OnClose, and was under way.                                 *)
LEMMA DialInert ==
  ASSUME TypeInv, DialDone, client.manual
  PROVE  Inert
<1> DEFINE s == [client EXCEPT !.connecting = FALSE]
<1>1. s.manual
  BY Known DEF ClientType
<1>2. Quiet(s, queue) \/ event' = "closed"
  BY <1>1 DEF DialDone, ConnectsAfterClose, TellClosed
<1>3. Underway /\ event' \in {"none", "closed"}
  BY <1>2 DEF DialDone, Underway, Quiet
<1> QED
  BY <1>3 DEF Inert

(* After Close nothing is set going by a handler that was queued or awaited  *)
(* before, and no connection is reported: what DoConnect and OnConnectDone   *)
(* ask of the manual flag is enough, whenever they come.                     *)
THEOREM CloseIsFinal == Spec => ClosedIsInert
<1>1. TypeInv /\ [Next]_vars =>
        [client.manual => /\ event' # "connected"
                          /\ (Underway' /\ ~Underway => calls' # calls \/ event' = "closed")]_vars
  <2> SUFFICES ASSUME TypeInv, Next, client.manual PROVE Inert
    BY DEF Inert
  <2>1. CASE Destroy
    <3>1. Keeps(queue, queue', Len(conns))
      BY <2>1, Known, CloseJobsKeep DEF Destroy
    <3>2. ~client'.armed
      BY <2>1, Known, CallEffects DEF Destroy
    <3> QED
      BY <2>1, <3>1, <3>2, NoneBegun DEF Destroy, Keeps
  <2>2. CASE AppCall
    <3>1. calls' # calls
      BY <2>2, Known DEF AppCall
    <3> QED
      BY <2>2, <3>1 DEF AppCall, Inert
  <2>3. CASE Send
    <3>1. client.conn \in 1..Len(conns) /\ sends + 1 \in Nat
      BY <2>3, Known DEF Send, ClientType, NoConn
    <3>2. Keeps(queue, queue', Len(conns))
      BY <2>3, <3>1, Known, AppendOther DEF Send
    <3> QED
      BY <2>3, <3>2, NoneBegun DEF Send, Keeps
  <2>4. CASE RunJob
    BY <2>4, JobInert
  <2>5. CASE DialDone
    BY <2>5, DialInert
  <2>6. CASE TimerFires
    BY <2>6 DEF TimerFires, Inert, Underway
  <2>7. CASE ReadDone
    BY <2>7, ChangesInert, HandleCloseInert DEF ReadDone
  <2>8. CASE WriteDone
    BY <2>8, ChangesInert, HandleCloseInert DEF WriteDone
  <2> QED
    BY <2>1, <2>2, <2>3, <2>4, <2>5, <2>6, <2>7, <2>8 DEF Next, Io
<1> QED
  BY <1>1, InvCorrect, PTL DEF Spec, ClosedIsInert
=============================================================================
