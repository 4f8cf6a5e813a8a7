--------------------------- MODULE TcpConnProofs ---------------------------
(***************************************************************************)
(* Theorems about TcpConn, for messages, buffers and bounds of any size.    *)
(***************************************************************************)
EXTENDS TcpConn, SequenceTheorems, TLAPS

-----------------------------------------------------------------------------
(* Sequences                                                                *)

(* What is left of s behind its first n members.                            *)
LEMMA Behind ==
  ASSUME NEW S, NEW s \in Seq(S), NEW n \in Nat
  PROVE  LET d == SubSeq(s, n + 1, Len(s)) IN
         /\ d \in Seq(S)
         /\ n <= Len(s) => Len(d) = Len(s) - n
         /\ \A i \in 1..Len(d) : d[i] = s[n + i]
         /\ s = <<>> => d = <<>>
<1> DEFINE d == SubSeq(s, n + 1, Len(s))
<1>1. Len(s) \in Nat /\ \A i \in (n + 1)..Len(s) : s[i] \in S
  BY ElementOfSeq, LenProperties
<1>2. /\ d \in Seq(S) /\ Len(d) = IF n + 1 <= Len(s) THEN Len(s) - (n + 1) + 1 ELSE 0
      /\ \A i \in 1..(Len(s) - (n + 1) + 1) : d[i] = s[(n + 1) + i - 1]
  <2> HIDE DEF d
  <2>1. n + 1 \in Int /\ Len(s) \in Int
    BY <1>1
  <2> QED
    BY <1>1, <2>1, SubSeqProperties DEF d
<1>3. s = <<>> => d = <<>>
  <2>1. s = <<>> => Len(s) < n + 1
    BY EmptySeq
  <2> QED
    BY <1>1, <2>1, SubSeqEmpty
<1> QED
  BY <1>1, <1>2, <1>3

(* The first n members of s.                                                *)
LEMMA Upto ==
  ASSUME NEW S, NEW s \in Seq(S), NEW n \in 0..Len(s)
  PROVE  LET f == SubSeq(s, 1, n) IN
         /\ f \in Seq(S) /\ Len(f) = n /\ \A i \in 1..n : f[i] = s[i]
         /\ f \o SubSeq(s, n + 1, Len(s)) = s
<1>1. Len(s) \in Nat /\ \A i \in 1..n : s[i] \in S
  BY ElementOfSeq, LenProperties
<1> DEFINE f == SubSeq(s, 1, n)
<1>2. /\ f \in Seq(S) /\ Len(f) = IF 1 <= n THEN n - 1 + 1 ELSE 0
      /\ \A i \in 1..(n - 1 + 1) : f[i] = s[1 + i - 1]
  <2>1. 1 \in Int /\ n \in Int
    BY <1>1
  <2> QED
    BY <1>1, <2>1, SubSeqProperties
<1>3. f \o SubSeq(s, n + 1, Len(s)) = SubSeq(s, 1, Len(s))
  <2>1. 1 \in 1..Len(s) + 1 /\ n \in (1 - 1)..Len(s) /\ Len(s) \in n..Len(s)
    BY <1>1
  <2> QED
    BY <2>1, ConcatAdjacentSubSeq
<1>4. SubSeq(s, 1, Len(s)) = s
  BY SubSeqFull
<1>5. f \in Seq(S) /\ Len(f) = n /\ \A i \in 1..n : f[i] = s[i]
  <2> HIDE DEF f
  <2> QED
    BY <1>1, <1>2
<1> QED
  BY <1>3, <1>4, <1>5

(* A concatenation begins with its first part.                              *)
LEMMA Begins ==
  ASSUME NEW S, NEW s \in Seq(S), NEW t \in Seq(S)
  PROVE  SubSeq(s \o t, 1, Len(s)) = s
<1>1. s \o t \in Seq(S) /\ Len(s) \in 0..Len(s \o t)
  BY ConcatProperties, LenProperties
<1>2. /\ SubSeq(s \o t, 1, Len(s)) \in Seq(S)
      /\ Len(SubSeq(s \o t, 1, Len(s))) = Len(s)
      /\ \A i \in 1..Len(s) : SubSeq(s \o t, 1, Len(s))[i] = (s \o t)[i]
  BY <1>1, Upto
<1>3. \A i \in 1..Len(s) : (s \o t)[i] = s[i]
  BY ConcatProperties, LenProperties
<1> QED
  BY <1>2, <1>3, SeqEqual

(* What is left of a concatenation behind a part of its first half.         *)
LEMMA BehindConcat ==
  ASSUME NEW S, NEW s \in Seq(S), NEW t \in Seq(S), NEW n \in 0..Len(s)
  PROVE  SubSeq(s \o t, n + 1, Len(s \o t)) = SubSeq(s, n + 1, Len(s)) \o t
<1> DEFINE f == SubSeq(s, 1, n)
           d == SubSeq(s, n + 1, Len(s))
           c == s \o t
           e == SubSeq(c, n + 1, Len(c))
<1>1. Len(s) \in Nat /\ Len(t) \in Nat /\ n \in Nat
  BY LenProperties
<1>2. /\ c \in Seq(S) /\ Len(c) = Len(s) + Len(t)
      /\ \A i \in 1..Len(s) + Len(t) : c[i] = IF i <= Len(s) THEN s[i] ELSE t[i - Len(s)]
  BY ConcatProperties
<1>3. d \in Seq(S) /\ Len(d) = Len(s) - n /\ \A i \in 1..Len(d) : d[i] = s[n + i]
  BY <1>1, Behind
<1> HIDE DEF c, d
<1>4. e \in Seq(S) /\ Len(e) = Len(c) - n /\ \A i \in 1..Len(e) : e[i] = c[n + i]
  BY <1>1, <1>2, Behind
<1> HIDE DEF e
<1>5. /\ d \o t \in Seq(S) /\ Len(d \o t) = Len(d) + Len(t)
      /\ \A i \in 1..Len(d) + Len(t) : (d \o t)[i] = IF i <= Len(d) THEN d[i] ELSE t[i - Len(d)]
  BY <1>3, ConcatProperties
<1>6. Len(e) = Len(d \o t)
  BY <1>1, <1>2, <1>3, <1>4, <1>5
<1>7. \A i \in 1..Len(e) : e[i] = (d \o t)[i]
  <2> SUFFICES ASSUME NEW i \in 1..Len(e) PROVE e[i] = (d \o t)[i]
    OBVIOUS
  <2>1. n + i \in 1..Len(s) + Len(t) /\ i \in 1..Len(d) + Len(t)
    BY <1>1, <1>2, <1>3, <1>4
  <2>2. CASE i <= Len(d)
    BY <1>1, <1>2, <1>3, <1>4, <1>5, <2>1, <2>2
  <2>3. CASE i > Len(d)
    <3>1. e[i] = t[n + i - Len(s)] /\ (d \o t)[i] = t[i - Len(d)]
      BY <1>1, <1>2, <1>3, <1>4, <1>5, <2>1, <2>3
    <3>2. n + i - Len(s) = i - Len(d)
      BY <1>1, <1>3
    <3> QED
      BY <3>1, <3>2
  <2> QED
    BY <1>1, <1>3, <2>1, <2>2, <2>3
<1>8. e = d \o t
  BY <1>4, <1>5, <1>6, <1>7, SeqEqual
<1> QED
  BY <1>8 DEF e, d, c

-----------------------------------------------------------------------------
(* Where the threads are                                                    *)

Seat == [at : Places, back : {"idle", "start", "dispatch"}, n : Nat]

(* Thread t goes to a place, to return to b, and nobody else moves.         *)
Moves(t, place, b, n) ==
  /\ th' \in [Threads -> Seat]
  /\ th'[t].at = place /\ th'[t].back = b /\ th'[t].n = n
  /\ \A u \in Threads : u # t => th'[u] = th[u]

LEMMA GotoMoves ==
  ASSUME th \in [Threads -> Seat], NEW t \in Threads, NEW place \in Places, Goto(t, place)
  PROVE  Moves(t, place, th[t].back, th[t].n)
BY DEF Goto, Moves, Seat

LEMMA CallMoves ==
  ASSUME th \in [Threads -> Seat], NEW t \in Threads, NEW place \in Places,
         NEW b \in {"idle", "start", "dispatch"}, Call(t, place, b)
  PROVE  Moves(t, place, b, th[t].n)
BY DEF Call, Moves, Seat

LEMMA ReturnMoves ==
  ASSUME th \in [Threads -> Seat], NEW t \in Threads, Return(t)
  PROVE  Moves(t, th[t].back, "idle", th[t].n)
BY DEF Return, Moves, Seat, Places

-----------------------------------------------------------------------------
(* Type correctness: of the threads, and of everything else.                *)

LEMMA CallStepMoves ==
  ASSUME th \in [Threads -> Seat], outbox \in Seq(Nat \ {0}), NEW t \in Threads, CallStep(t),
         wire \in Seq(Nat \ {0}), acked \in Nat
  PROVE  \E place \in Places, b \in {"idle", "start", "dispatch"}, n \in Nat : Moves(t, place, b, n)
<1> USE ConnAssumption
<1>0. /\ th[t] \in Seat /\ th[t].back \in {"idle", "start", "dispatch"} /\ th[t].n \in Nat
      /\ th[t].back \in Places /\ "idle" \in {"idle", "start", "dispatch"}
  BY DEF Seat, Places
<1>1. ASSUME NEW place \in Places, Goto(t, place)
      PROVE  \E p \in Places, b \in {"idle", "start", "dispatch"}, n \in Nat : Moves(t, p, b, n)
  BY <1>0, <1>1, GotoMoves
<1>2. ASSUME Return(t)
      PROVE  \E p \in Places, b \in {"idle", "start", "dispatch"}, n \in Nat : Moves(t, p, b, n)
  BY <1>0, <1>2, ReturnMoves
<1>3. {"append", "enter", "write", "close", "shut", "delfd", "closefd", "finish", "remove"} \subseteq Places
  BY DEF Places
<1>4. CASE SendTest(t) \/ SendWrite(t)
  BY <1>1, <1>2, <1>3, <1>4 DEF SendTest, SendWrite
<1>5. CASE HandleWrite(t)
  BY <1>1, <1>2, <1>3, <1>5 DEF HandleWrite
<1>6. CASE WriteSome(t)
  <2>1. CASE th' = [th EXCEPT ![t].at = "remove", ![t].n = Taken] /\ Room > 0
    <3>1. Taken \in Nat
      <4>1. Len(outbox) \in Nat /\ Len(wire) \in Nat
        BY <1>6, LenProperties
      <4> QED
        BY <2>1, <4>1 DEF Taken, Room
    <3>2. Moves(t, "remove", th[t].back, Taken)
      BY <1>0, <1>3, <2>1, <3>1 DEF Moves, Seat
    <3> QED
      BY <1>0, <1>3, <3>1, <3>2
  <2> QED
    BY <1>1, <1>2, <1>3, <1>6, <2>1 DEF WriteSome
<1>7. CASE WriteRemove(t)
  <2>1. Moves(t, "write", th[t].back, 0)
    BY <1>0, <1>3, <1>7 DEF WriteRemove, Moves, Seat
  <2> QED
    BY <1>0, <1>3, <2>1
<1>8. CASE CloseTest(t) \/ CloseShut(t) \/ CloseDelFd(t) \/ CloseFd(t) \/ CloseFinish(t)
  BY <1>1, <1>2, <1>3, <1>8 DEF CloseTest, CloseShut, CloseDelFd, CloseFd, CloseFinish
<1> QED
  BY <1>4, <1>5, <1>6, <1>7, <1>8 DEF CallStep

LEMMA OtherStepMoves ==
  ASSUME th \in [Threads -> Seat], LoopStep \/ UserStep \/ PeerStep
  PROVE  th' = th \/ \E t \in Threads, place \in Places, b \in {"idle", "start", "dispatch"}, n \in Nat :
                       Moves(t, place, b, n)
<1> USE ConnAssumption
<1>0. Loop \in Threads /\ User \in Threads
  BY DEF Threads
<1>1. ASSUME NEW t \in Threads, NEW place \in Places, Goto(t, place)
      PROVE  \E p \in Places, b \in {"idle", "start", "dispatch"}, n \in Nat : Moves(t, p, b, n)
  BY <1>1, GotoMoves DEF Seat
<1>2. ASSUME NEW t \in Threads, NEW place \in Places, NEW b \in {"idle", "start", "dispatch"},
             Call(t, place, b)
      PROVE  \E p \in Places, c \in {"idle", "start", "dispatch"}, n \in Nat : Moves(t, p, c, n)
  BY <1>2, CallMoves DEF Seat
<1>3. {"start", "send", "close", "idle", "recv", "dispatch"} \subseteq Places
  BY DEF Places
<1>4. CASE LoopStep
  BY <1>0, <1>1, <1>2, <1>3, <1>4
     DEF LoopStep, OnAccept, Start, HandleEvent, HandleRead, DispatchMessages
<1>5. CASE UserStep
  BY <1>0, <1>2, <1>3, <1>5 DEF UserStep, UserSend, UserClose
<1>6. CASE PeerStep
  BY <1>6 DEF PeerStep, PeerSend, PeerRead, PeerEnds
<1> QED
  BY <1>4, <1>5, <1>6

Bytes == Nat \ {0}
DataOK ==
  /\ closed \in BOOLEAN /\ open \in BOOLEAN /\ table \in BOOLEAN
  /\ rbuf \in Seq(Bytes) /\ outbox \in Seq(Bytes) /\ inq \in Seq(Bytes)
  /\ wire \in Seq(Bytes) /\ written \in Seq(Bytes)
  /\ delivered \in Seq(Seq(Nat))
  /\ peer \in {"open", "fin", "rst"}
  /\ acked \in 0..Len(wire) /\ arrived \in Nat
  /\ calls \in 0..Calls /\ notified \in Nat
  /\ overlap \subseteq {"send", "close", "start"}

LEMMA TypeParts == TypeOK <=> th \in [Threads -> Seat] /\ DataOK /\ local \in BOOLEAN
BY DEF TypeOK, DataOK, Seat, Bytes

LEMMA BlockType ==
  ASSUME written \in Seq(Bytes)
  PROVE  Block \in Seq(Bytes)
<1>1. Len(written) \in Nat /\ Parts \in Nat
  BY LenProperties, ConnAssumption
<1> QED
  BY <1>1 DEF Block, Bytes

LEMMA CallStepData ==
  ASSUME DataOK, th \in [Threads -> Seat], NEW t \in Threads, CallStep(t),
         overlap' \subseteq {"send", "close", "start"}
  PROVE  DataOK'
<1>0. th[t].n \in Nat
  BY DEF Seat
<1>1. CASE SendWrite(t)
  <2>1. outbox' \in Seq(Bytes) /\ written' \in Seq(Bytes)
    <3>1. outbox \o Block \in Seq(Bytes) /\ written \o Block \in Seq(Bytes)
      BY BlockType, ConcatProperties DEF DataOK
    <3>2. outbox \in Seq(Bytes) /\ written \in Seq(Bytes)
      BY DEF DataOK
    <3> QED
      BY <1>1, <3>1, <3>2 DEF SendWrite
  <2> QED
    BY <1>1, <2>1 DEF SendWrite, DataOK, net
<1>2. CASE SendTest(t) \/ HandleWrite(t)
  BY <1>2 DEF SendTest, HandleWrite, DataOK, net, hist
<1>3. CASE WriteSome(t)
  <2>1. CASE wire' = wire
    BY <1>3, <2>1 DEF WriteSome, DataOK, net
  <2>2. CASE wire' = wire \o SubSeq(outbox, 1, Taken) /\ Room > 0
    <3>1. Taken \in 0..Len(outbox)
      <4>1. Len(outbox) \in Nat /\ Len(wire) \in Nat /\ SndBuf \in Nat /\ acked \in Nat
        BY LenProperties, ConnAssumption DEF DataOK
      <4> QED
        BY <2>2, <4>1 DEF Taken, Room
    <3>2. SubSeq(outbox, 1, Taken) \in Seq(Bytes)
      BY <3>1, Upto DEF DataOK
    <3>3. wire' \in Seq(Bytes) /\ Len(wire') >= Len(wire)
      BY <2>2, <3>2, ConcatProperties, LenProperties DEF DataOK
    <3>4. acked \in 0..Len(wire')
      BY <3>3, LenProperties DEF DataOK
    <3> QED
      BY <1>3, <3>3, <3>4 DEF WriteSome, DataOK, net
  <2> QED
    BY <1>3, <2>1, <2>2 DEF WriteSome
<1>4. CASE WriteRemove(t)
  <2>1. outbox' \in Seq(Bytes)
    BY <1>0, <1>4, Behind DEF WriteRemove, Sent, DataOK
  <2> QED
    BY <1>4, <2>1 DEF WriteRemove, DataOK, net, hist
<1>5. CASE CloseTest(t)
  BY <1>5 DEF CloseTest, DataOK, net, hist
<1>6. CASE CloseShut(t)
  BY <1>6 DEF CloseShut, DataOK, net, hist
<1>7. CASE CloseDelFd(t)
  BY <1>7 DEF CloseDelFd, DelFd, DataOK, net, hist
<1>8. CASE CloseFd(t)
  BY <1>8 DEF CloseFd, DataOK, net, hist
<1>9. CASE CloseFinish(t)
  <2>1. outbox' \in Seq(Bytes)
    BY <1>9, EmptySeq DEF CloseFinish
  <2> QED
    BY <1>9, <2>1 DEF CloseFinish, DataOK, net
<1> QED
  BY <1>1, <1>2, <1>3, <1>4, <1>5, <1>6, <1>7, <1>8, <1>9 DEF CallStep

LEMMA OtherStepData ==
  ASSUME DataOK, LoopStep \/ UserStep \/ PeerStep,
         overlap' \subseteq {"send", "close", "start"}
  PROVE  DataOK'
<1> USE ConnAssumption
<1>1. CASE OnAccept \/ HandleEvent
  BY <1>1 DEF OnAccept, HandleEvent, DataOK, net, hist
<1>2. CASE Start
  BY <1>2 DEF Start, DataOK, net, hist
<1>3. CASE HandleRead
  <2>1. CASE UNCHANGED <<rbuf, inq>>
    BY <1>3, <2>1 DEF HandleRead, DataOK, hist
  <2>2. CASE \E n \in 1..RcvBuf : /\ n <= Len(inq)
                                  /\ rbuf' = rbuf \o SubSeq(inq, 1, n)
                                  /\ inq' = SubSeq(inq, n + 1, Len(inq))
    <3>1. PICK n \in 1..RcvBuf : /\ n <= Len(inq)
                                 /\ rbuf' = rbuf \o SubSeq(inq, 1, n)
                                 /\ inq' = SubSeq(inq, n + 1, Len(inq))
      BY <2>2
    <3>2. n \in 0..Len(inq) /\ n \in Nat
      BY <3>1, LenProperties DEF DataOK
    <3>3. SubSeq(inq, 1, n) \in Seq(Bytes) /\ inq' \in Seq(Bytes)
      BY <3>1, <3>2, Upto, Behind DEF DataOK
    <3>4. rbuf' \in Seq(Bytes)
      BY <3>1, <3>3, ConcatProperties DEF DataOK
    <3> QED
      BY <1>3, <3>3, <3>4 DEF HandleRead, DataOK, hist
  <2> QED
    BY <1>3, <2>1, <2>2 DEF HandleRead
<1>4. CASE DispatchMessages
  <2>1. rbuf' \in Seq(Bytes)
    <3>1. Consumed \in Seq(Bytes)
      BY Behind DEF Consumed, DataOK
    <3> QED
      BY <1>4, <3>1 DEF DispatchMessages, DataOK
  <2>2. delivered' \in Seq(Seq(Nat))
    <3>1. CASE delivered' = delivered
      BY <3>1 DEF DataOK
    <3>2. CASE delivered' = Append(delivered, SubSeq(rbuf, 1, Parts)) /\ Len(rbuf) >= Parts
      <4>1. SubSeq(rbuf, 1, Parts) \in Seq(Bytes)
        <5>1. Parts \in 0..Len(rbuf)
          BY <3>2, LenProperties DEF DataOK
        <5> QED
          BY <5>1, Upto DEF DataOK
      <4>2. SubSeq(rbuf, 1, Parts) \in Seq(Nat)
        BY <4>1, SeqMonotonic DEF Bytes
      <4> QED
        BY <3>2, <4>2, AppendProperties DEF DataOK
    <3> QED
      BY <1>4, <3>1, <3>2 DEF DispatchMessages
  <2> QED
    BY <1>4, <2>1, <2>2 DEF DispatchMessages, DataOK, net
<1>5. CASE UserStep
  BY <1>5 DEF UserStep, UserSend, UserClose, DataOK, net
<1>6. CASE PeerSend
  <2>1. [i \in 1..Parts |-> arrived + i] \in Seq(Bytes)
    BY DEF DataOK, Bytes
  <2>2. inq' \in Seq(Bytes)
    BY <1>6, <2>1, ConcatProperties DEF PeerSend, DataOK
  <2> QED
    BY <1>6, <2>2 DEF PeerSend, DataOK, hist
<1>7. CASE PeerRead
  <2>1. Len(wire) \in Nat
    BY LenProperties DEF DataOK
  <2> QED
    BY <1>7, <2>1 DEF PeerRead, DataOK, hist
<1>8. CASE PeerEnds
  BY <1>8 DEF PeerEnds, DataOK, hist
<1> QED
  BY <1>1, <1>2, <1>3, <1>4, <1>5, <1>6, <1>7, <1>8 DEF LoopStep, PeerStep

-----------------------------------------------------------------------------
(* Buffers hold bytes, threads are at places of the code, counters count    *)
(* (all of Conn's handlers).                                                *)
THEOREM TypeCorrect == Spec => []TypeOK
<1>1. Init => TypeOK
  <2> SUFFICES ASSUME Init PROVE TypeOK
    OBVIOUS
  <2>1. th \in [Threads -> Seat]
    BY DEF Init, Seat, Places
  <2>2. <<>> \in Seq(Bytes) /\ <<>> \in Seq(Seq(Nat)) /\ Len(<<>>) = 0
    BY EmptySeq
  <2>3. /\ rbuf \in Seq(Bytes) /\ outbox \in Seq(Bytes) /\ inq \in Seq(Bytes)
        /\ wire \in Seq(Bytes) /\ written \in Seq(Bytes) /\ delivered \in Seq(Seq(Nat))
        /\ Len(wire) = 0
    BY <2>2 DEF Init
  <2>4. DataOK
    <3>1. /\ closed \in BOOLEAN /\ open \in BOOLEAN /\ table \in BOOLEAN
          /\ peer \in {"open", "fin", "rst"} /\ overlap \subseteq {"send", "close", "start"}
      BY DEF Init
    <3>2. acked = 0 /\ arrived = 0 /\ calls = 0 /\ notified = 0
      BY DEF Init
    <3> QED
      BY <2>3, <3>1, <3>2, ConnAssumption DEF DataOK
  <2> QED
    BY <2>1, <2>4, TypeParts DEF Init
<1>2. TypeOK /\ [Next]_vars => TypeOK'
  <2> SUFFICES ASSUME TypeOK, [Next]_vars PROVE TypeOK'
    OBVIOUS
  <2>0. th \in [Threads -> Seat] /\ DataOK /\ local \in BOOLEAN
    BY TypeParts
  <2>1. CASE UNCHANGED vars
    BY <2>1 DEF vars, net, hist, TypeOK
  <2>2. CASE Next
    <3>1. overlap' \subseteq {"send", "close", "start"}
      BY <2>0, <2>2 DEF Next, Overlaps, DataOK
    <3>2. th' \in [Threads -> Seat]
      <4>1. wire \in Seq(Nat \ {0}) /\ acked \in Nat /\ outbox \in Seq(Nat \ {0})
        BY <2>0, LenProperties DEF DataOK, Bytes
      <4>2. ASSUME NEW t \in Threads, CallStep(t) PROVE th' \in [Threads -> Seat]
        BY <2>0, <4>1, <4>2, CallStepMoves DEF Moves
      <4>3. ASSUME LoopStep \/ UserStep \/ PeerStep PROVE th' \in [Threads -> Seat]
        BY <2>0, <4>3, OtherStepMoves DEF Moves
      <4> QED
        BY <2>2, <4>2, <4>3 DEF Next, Step
    <3>3. DataOK'
      BY <2>0, <2>2, <3>1, CallStepData, OtherStepData DEF Next, Step
    <3>4. local' \in BOOLEAN
      BY <2>0, <2>2 DEF Next
    <3> QED
      BY <3>2, <3>3, <3>4 DEF TypeOK, DataOK, Seat, Bytes
  <2> QED
    BY <2>1, <2>2
<1> QED
  BY <1>1, <1>2, PTL DEF Spec

-----------------------------------------------------------------------------
(* The receiving half: what the peer has sent is what the handler has       *)
(* taken, what waits in rbuf_ and what waits in the kernel, in this order.  *)
WholeInv ==
  LET k == Parts * Len(delivered) IN
  /\ arrived = k + Len(rbuf) + Len(inq)
  /\ \A i \in 1..Len(rbuf) : rbuf[i] = k + i
  /\ \A i \in 1..Len(inq) : inq[i] = k + Len(rbuf) + i
  /\ MessagesWhole

LEMMA ReadWhole ==
  ASSUME DataOK, WholeInv, HandleRead
  PROVE  WholeInv'
<1> DEFINE k == Parts * Len(delivered)
<1>0. /\ Len(delivered) \in Nat /\ Len(rbuf) \in Nat /\ Len(inq) \in Nat /\ Parts \in Nat
      /\ rbuf \in Seq(Bytes) /\ inq \in Seq(Bytes) /\ arrived \in Nat
  BY LenProperties, ConnAssumption DEF DataOK
<1>1. delivered' = delivered /\ arrived' = arrived
  BY DEF HandleRead, hist
<1>2. MessagesWhole'
  BY <1>1 DEF WholeInv, MessagesWhole
<1>3. CASE UNCHANGED <<rbuf, inq>>
  BY <1>1, <1>2, <1>3 DEF WholeInv
<1>4. ASSUME NEW n \in 1..RcvBuf, n <= Len(inq),
             rbuf' = rbuf \o SubSeq(inq, 1, n), inq' = SubSeq(inq, n + 1, Len(inq))
      PROVE  WholeInv'
  <2>1. n \in 0..Len(inq) /\ n \in Nat
    BY <1>0, <1>4
  <2> DEFINE f == SubSeq(inq, 1, n)
  <2>2. f \in Seq(Bytes) /\ Len(f) = n /\ \A i \in 1..n : f[i] = inq[i]
    BY <1>0, <2>1, Upto
  <2>3. Len(inq') = Len(inq) - n /\ \A i \in 1..Len(inq') : inq'[i] = inq[n + i]
    BY <1>0, <1>4, <2>1, Behind
  <2>4. /\ Len(rbuf') = Len(rbuf) + n
        /\ \A i \in 1..Len(rbuf') : rbuf'[i] = IF i <= Len(rbuf) THEN rbuf[i] ELSE f[i - Len(rbuf)]
    BY <1>0, <1>4, <2>2, ConcatProperties
  <2> HIDE DEF f
  <2>5. k \in Nat
    BY <1>0
  <2>6. /\ arrived = k + Len(rbuf) + Len(inq)
        /\ \A i \in 1..Len(rbuf) : rbuf[i] = k + i
        /\ \A i \in 1..Len(inq) : inq[i] = k + Len(rbuf) + i
    BY DEF WholeInv
  <2> HIDE DEF k
  <2>7. arrived = k + Len(rbuf') + Len(inq')
    BY <1>0, <2>1, <2>3, <2>4, <2>5, <2>6
  <2>8. \A i \in 1..Len(rbuf') : rbuf'[i] = k + i
    <3> SUFFICES ASSUME NEW i \in 1..Len(rbuf') PROVE rbuf'[i] = k + i
      OBVIOUS
    <3>1. CASE i <= Len(rbuf)
      BY <1>0, <2>1, <2>4, <2>6, <3>1
    <3>2. CASE i > Len(rbuf)
      <4>1. i - Len(rbuf) \in 1..n /\ i - Len(rbuf) \in 1..Len(inq)
        BY <1>0, <2>1, <2>4, <3>2
      <4>2. rbuf'[i] = inq[i - Len(rbuf)]
        BY <1>0, <2>2, <2>4, <3>2, <4>1
      <4> QED
        BY <1>0, <2>5, <2>6, <4>1, <4>2
    <3> QED
      BY <1>0, <2>1, <2>4, <3>1, <3>2
  <2>9. \A i \in 1..Len(inq') : inq'[i] = k + Len(rbuf') + i
    BY <1>0, <2>1, <2>3, <2>4, <2>5, <2>6
  <2> QED
    BY <1>1, <1>2, <2>7, <2>8, <2>9 DEF WholeInv, k
<1> QED
  BY <1>3, <1>4 DEF HandleRead

LEMMA DispatchWhole ==
  ASSUME DataOK, WholeInv, DispatchMessages
  PROVE  WholeInv'
<1> DEFINE k == Parts * Len(delivered)
<1>0. /\ Len(delivered) \in Nat /\ Len(rbuf) \in Nat /\ Len(inq) \in Nat /\ Parts \in Nat
      /\ rbuf \in Seq(Bytes) /\ inq \in Seq(Bytes) /\ arrived \in Nat
      /\ delivered \in Seq(Seq(Nat))
  BY LenProperties, ConnAssumption DEF DataOK
<1>1. inq' = inq /\ arrived' = arrived
  BY DEF DispatchMessages, net
<1>2. CASE UNCHANGED <<rbuf, delivered>>
  BY <1>1, <1>2 DEF WholeInv, MessagesWhole
<1>3. ASSUME Len(rbuf) >= Parts, delivered' = Append(delivered, SubSeq(rbuf, 1, Parts)),
             rbuf' = Consumed
      PROVE  WholeInv'
  <2> DEFINE m == SubSeq(rbuf, 1, Parts)
  <2>1. Parts \in 0..Len(rbuf)
    BY <1>0, <1>3
  <2>2. m \in Seq(Bytes) /\ Len(m) = Parts /\ \A i \in 1..Parts : m[i] = rbuf[i]
    BY <1>0, <2>1, Upto
  <2>3. Len(rbuf') = Len(rbuf) - Parts /\ \A i \in 1..Len(rbuf') : rbuf'[i] = rbuf[Parts + i]
    BY <1>0, <1>3, Behind DEF Consumed
  <2>4. m \in Seq(Nat)
    BY <2>2, SeqMonotonic DEF Bytes
  <2>5. /\ Len(delivered') = Len(delivered) + 1
        /\ delivered'[Len(delivered) + 1] = m
        /\ \A i \in 1..Len(delivered) : delivered'[i] = delivered[i]
    BY <1>0, <1>3, <2>4, AppendProperties
  <2>6. k \in Nat /\ Parts * Len(delivered') = k + Parts
    BY <1>0, <2>5
  <2>7. /\ arrived = k + Len(rbuf) + Len(inq)
        /\ \A i \in 1..Len(rbuf) : rbuf[i] = k + i
        /\ \A i \in 1..Len(inq) : inq[i] = k + Len(rbuf) + i
        /\ MessagesWhole
    BY DEF WholeInv
  <2>8. m = [j \in 1..Parts |-> (Len(delivered) + 1 - 1) * Parts + j]
    <3>1. (Len(delivered) + 1 - 1) * Parts = k
      BY <1>0
    <3>2. m = [j \in 1..Len(m) |-> m[j]]
      BY <2>2, LenProperties
    <3> HIDE DEF m, k
    <3>3. \A j \in 1..Parts : m[j] = k + j
      <4>1. \A j \in 1..Parts : m[j] = rbuf[j] /\ j \in 1..Len(rbuf)
        BY <1>0, <2>1, <2>2
      <4> QED
        BY <2>7, <4>1
    <3> QED
      BY <2>2, <3>1, <3>2, <3>3
  <2> HIDE DEF m
  <2>9. MessagesWhole'
    <3> SUFFICES ASSUME NEW i \in 1..Len(delivered')
                 PROVE  delivered'[i] = [j \in 1..Parts |-> (i - 1) * Parts + j]
      BY DEF MessagesWhole
    <3>1. CASE i \in 1..Len(delivered)
      BY <2>5, <2>7, <3>1 DEF MessagesWhole
    <3>2. CASE i = Len(delivered) + 1
      BY <2>5, <2>8, <3>2
    <3> QED
      BY <1>0, <2>5, <3>1, <3>2
  <2> HIDE DEF k
  <2>10. arrived = k + Parts + Len(rbuf') + Len(inq)
    BY <1>0, <2>3, <2>6, <2>7
  <2>11. \A i \in 1..Len(rbuf') : rbuf'[i] = k + Parts + i
    <3> SUFFICES ASSUME NEW i \in 1..Len(rbuf') PROVE rbuf'[i] = k + Parts + i
      OBVIOUS
    <3>1. Parts + i \in 1..Len(rbuf)
      BY <1>0, <1>3, <2>3
    <3>2. rbuf'[i] = rbuf[Parts + i]
      BY <2>3
    <3> QED
      BY <1>0, <2>6, <2>7, <3>1, <3>2
  <2>12. \A i \in 1..Len(inq) : inq[i] = k + Parts + Len(rbuf') + i
    BY <1>0, <2>3, <2>6, <2>7
  <2> QED
    BY <1>1, <2>6, <2>9, <2>10, <2>11, <2>12 DEF WholeInv
<1> QED
  BY <1>2, <1>3 DEF DispatchMessages

LEMMA PeerWhole ==
  ASSUME DataOK, WholeInv, PeerSend
  PROVE  WholeInv'
<1> DEFINE k == Parts * Len(delivered)
           b == [i \in 1..Parts |-> arrived + i]
<1>0. /\ Len(delivered) \in Nat /\ Len(rbuf) \in Nat /\ Len(inq) \in Nat /\ Parts \in Nat
      /\ inq \in Seq(Bytes) /\ arrived \in Nat
  BY LenProperties, ConnAssumption DEF DataOK
<1>1. delivered' = delivered /\ rbuf' = rbuf /\ arrived' = arrived + Parts /\ inq' = inq \o b
  BY DEF PeerSend, hist
<1>2. MessagesWhole'
  BY <1>1 DEF WholeInv, MessagesWhole
<1>3. b \in Seq(Bytes) /\ Len(b) = Parts /\ \A i \in 1..Parts : b[i] = arrived + i
  BY <1>0 DEF Bytes
<1>4. k \in Nat
  BY <1>0
<1>5. /\ arrived = k + Len(rbuf) + Len(inq)
      /\ \A i \in 1..Len(rbuf) : rbuf[i] = k + i
      /\ \A i \in 1..Len(inq) : inq[i] = k + Len(rbuf) + i
  BY DEF WholeInv
<1> HIDE DEF b, k
<1>6. /\ Len(inq') = Len(inq) + Parts
      /\ \A i \in 1..Len(inq') : inq'[i] = IF i <= Len(inq) THEN inq[i] ELSE b[i - Len(inq)]
  <2>1. /\ Len(inq \o b) = Len(inq) + Len(b)
        /\ \A i \in 1..Len(inq) + Len(b) :
             (inq \o b)[i] = IF i <= Len(inq) THEN inq[i] ELSE b[i - Len(inq)]
    BY <1>0, <1>3, ConcatProperties
  <2> QED
    BY <1>1, <1>3, <2>1
<1>7. \A i \in 1..Len(inq') : inq'[i] = k + Len(rbuf) + i
  <2> SUFFICES ASSUME NEW i \in 1..Len(inq') PROVE inq'[i] = k + Len(rbuf) + i
    OBVIOUS
  <2>1. CASE i <= Len(inq)
    BY <1>0, <1>5, <1>6, <2>1
  <2>2. CASE i > Len(inq)
    <3>1. i - Len(inq) \in 1..Parts
      BY <1>0, <1>6, <2>2
    <3>2. inq'[i] = arrived + (i - Len(inq))
      BY <1>0, <1>3, <1>6, <2>2, <3>1
    <3> QED
      BY <1>0, <1>4, <1>5, <3>1, <3>2
  <2> QED
    BY <1>0, <1>6, <2>1, <2>2
<1>8. arrived' = k + Len(rbuf) + Len(inq')
  BY <1>0, <1>1, <1>4, <1>5, <1>6
<1> QED
  BY <1>1, <1>2, <1>5, <1>7, <1>8 DEF WholeInv, k

(* The handler gets the peer's messages whole, in order and once, however   *)
(* many bytes a receive brings and whatever the other thread does           *)
(* (HandleRead and DispatchMessages).                                       *)
THEOREM WholeMessages == Spec => []MessagesWhole
<1>1. Init => WholeInv
  <2> SUFFICES ASSUME Init PROVE WholeInv
    OBVIOUS
  <2>1. Len(rbuf) = 0 /\ Len(inq) = 0 /\ Len(delivered) = 0 /\ arrived = 0
    BY EmptySeq DEF Init
  <2> QED
    BY <2>1, ConnAssumption DEF WholeInv, MessagesWhole
<1>2. TypeOK /\ WholeInv /\ [Next]_vars => WholeInv'
  <2> SUFFICES ASSUME TypeOK, WholeInv, [Next]_vars PROVE WholeInv'
    OBVIOUS
  <2>0. DataOK
    BY TypeParts
  <2>1. ASSUME UNCHANGED <<delivered, rbuf, inq, arrived>> PROVE WholeInv'
    BY <2>1 DEF WholeInv, MessagesWhole
  <2>2. CASE UNCHANGED vars
    BY <2>1, <2>2 DEF vars, net, hist
  <2>3. ASSUME NEW t \in Threads, CallStep(t) PROVE WholeInv'
    BY <2>1, <2>3 DEF CallStep, SendTest, SendWrite, HandleWrite, WriteSome, WriteRemove,
      CloseTest, CloseShut, CloseDelFd, CloseFd, CloseFinish, net, hist
  <2>4. CASE OnAccept \/ Start \/ HandleEvent
    BY <2>1, <2>4 DEF OnAccept, Start, HandleEvent, net, hist
  <2>5. CASE HandleRead
    BY <2>0, <2>5, ReadWhole
  <2>6. CASE DispatchMessages
    BY <2>0, <2>6, DispatchWhole
  <2>7. CASE UserStep \/ PeerRead \/ PeerEnds
    BY <2>1, <2>7 DEF UserStep, UserSend, UserClose, PeerRead, PeerEnds, net, hist
  <2>8. CASE PeerSend
    BY <2>0, <2>8, PeerWhole
  <2> QED
    BY <2>2, <2>3, <2>4, <2>5, <2>6, <2>7, <2>8 DEF Next, Step, LoopStep, PeerStep
<1>3. WholeInv => MessagesWhole
  BY DEF WholeInv
<1> QED
  BY <1>1, <1>2, <1>3, TypeCorrect, PTL DEF Spec

-----------------------------------------------------------------------------
(* Closing.  While no two calls of close_now overlap, and none overlaps     *)
(* Start, closed_ stands for the whole of what close_now does, except for   *)
(* the one thread that is still doing it.                                   *)
Closers == {"close", "shut", "delfd", "closefd", "finish"}
Deep == {"shut", "delfd", "closefd", "finish"}
Done(t) == th[t].at \notin {"delfd", "closefd", "finish"}

Apart ==
  /\ \A t \in Threads, u \in Threads : t # u => ~(th[t].at \in Closers /\ th[u].at \in Closers)
  /\ ~(At(Loop, "start") /\ th[User].at \in Closers)

CloseCore ==
  /\ ~closed => open /\ notified = 0
  /\ \A t \in Threads :
       /\ At(t, "shut") => ~closed
       /\ ~Done(t) => closed /\ notified = 0
       /\ At(t, "delfd") => open
       /\ At(t, "closefd") => open /\ ~table
       /\ At(t, "finish") => ~open /\ ~table
  /\ closed /\ (\A t \in Threads : Done(t)) => ~table /\ ~open /\ notified = 1

Alone == overlap \cap {"start", "close"} = {}
CloseInv == Overlaps \subseteq overlap /\ (Alone => CloseCore)

LEMMA AloneApart ==
  ASSUME Overlaps \subseteq overlap, Alone
  PROVE  Apart
<1>1. "close" \notin Overlaps /\ "start" \notin Overlaps
  BY DEF Alone
<1>2. Closing # Threads /\ ~(At(Loop, "start") /\ User \in Closing)
  BY <1>1 DEF Overlaps
<1>3. ASSUME NEW t \in Threads, NEW u \in Threads, t # u,
             th[t].at \in Closers, th[u].at \in Closers
      PROVE  FALSE
  BY <1>2, <1>3 DEF Closing, Closers, Threads
<1> QED
  BY <1>2, <1>3 DEF Apart, Closing, Closers, Threads

(* Thread t moves, and nobody else.                                         *)
Only(t) == \A u \in Threads : u # t => th'[u] = th[u]
Flags == <<closed, open, table, notified>>
Stream == <<outbox, wire, written>>
Shallow == {"idle", "accepted", "start", "recv", "dispatch", "send", "close"}

LEMMA QuietMove ==
  ASSUME CloseCore, UNCHANGED Flags, NEW t \in Threads, Only(t),
         th[t].at \notin Deep, th'[t].at \notin Deep
  PROVE  CloseCore'
<1>1. \A u \in Threads : \A place \in Deep : th'[u].at = place <=> th[u].at = place
  BY DEF Only
<1>2. /\ \A u \in Threads : /\ At(u, "shut")' <=> At(u, "shut")
                            /\ At(u, "delfd")' <=> At(u, "delfd")
                            /\ At(u, "closefd")' <=> At(u, "closefd")
                            /\ At(u, "finish")' <=> At(u, "finish")
                            /\ Done(u)' <=> Done(u)
  BY <1>1 DEF At, Done, Deep
<1> QED
  BY <1>2 DEF CloseCore, Flags

LEMMA QuietCall ==
  ASSUME th \in [Threads -> Seat], NEW t \in Threads,
         SendTest(t) \/ SendWrite(t) \/ HandleWrite(t) \/ WriteSome(t) \/ WriteRemove(t)
  PROVE  UNCHANGED Flags /\ Only(t) /\ th[t].at \notin Deep /\ th'[t].at \notin Deep
<1>0. th[t] \in Seat /\ th[t].back \notin Deep
  BY DEF Seat, Deep
<1>1. ASSUME Return(t) PROVE Only(t) /\ th'[t].at \notin Deep
  BY <1>0, <1>1 DEF Return, Only, Seat
<1>2. ASSUME NEW place \in Places \ Deep, Goto(t, place) PROVE Only(t) /\ th'[t].at \notin Deep
  BY <1>0, <1>2 DEF Goto, Only, Seat
<1>3. {"append", "enter", "write", "close"} \subseteq Places \ Deep
  BY DEF Places, Deep
<1>4. CASE SendTest(t)
  BY <1>1, <1>2, <1>3, <1>4 DEF SendTest, At, Deep, Flags, hist
<1>5. CASE SendWrite(t)
  BY <1>2, <1>3, <1>5 DEF SendWrite, At, Deep, Flags
<1>6. CASE HandleWrite(t)
  BY <1>1, <1>2, <1>3, <1>6 DEF HandleWrite, At, Deep, Flags, hist
<1>7. CASE WriteSome(t)
  <2>1. ASSUME th' = [th EXCEPT ![t].at = "remove", ![t].n = Taken]
        PROVE  Only(t) /\ th'[t].at \notin Deep
    BY <1>0, <2>1 DEF Only, Seat, Deep
  <2> QED
    BY <1>1, <1>2, <1>3, <1>7, <2>1 DEF WriteSome, At, Deep, Flags
<1>8. CASE WriteRemove(t)
  <2>1. Only(t) /\ th'[t].at \notin Deep
    BY <1>0, <1>8 DEF WriteRemove, Only, Seat, Deep
  <2> QED
    BY <1>8, <2>1 DEF WriteRemove, At, Deep, Flags, hist
<1> QED
  BY <1>4, <1>5, <1>6, <1>7, <1>8

LEMMA QuietOther ==
  ASSUME th \in [Threads -> Seat],
         OnAccept \/ HandleEvent \/ HandleRead \/ DispatchMessages \/ UserStep
  PROVE  \E t \in Threads : /\ UNCHANGED Flags /\ UNCHANGED Stream /\ Only(t)
                            /\ th[t].at \in Shallow /\ th'[t].at \in Shallow
<1>0. Loop \in Threads /\ User \in Threads
  BY DEF Threads
<1>1. ASSUME NEW t \in Threads, NEW place \in Places, Goto(t, place)
      PROVE  Only(t) /\ th'[t].at = place
  BY <1>1 DEF Goto, Only, Seat
<1>2. ASSUME NEW t \in Threads, NEW place \in Places, NEW b, Call(t, place, b)
      PROVE  Only(t) /\ th'[t].at = place
  BY <1>2 DEF Call, Only, Seat
<1>3. Shallow \subseteq Places
  BY DEF Places, Shallow
<1>4. CASE OnAccept
  BY <1>0, <1>1, <1>2, <1>3, <1>4 DEF OnAccept, At, Shallow, Flags, Stream, hist
<1>5. CASE HandleEvent
  BY <1>0, <1>2, <1>3, <1>5 DEF HandleEvent, At, Shallow, Flags, Stream, hist
<1>6. CASE HandleRead
  BY <1>0, <1>1, <1>2, <1>3, <1>6 DEF HandleRead, At, Shallow, Flags, Stream, hist
<1>7. CASE DispatchMessages
  <2>1. ASSUME th' = th PROVE Only(Loop) /\ (At(Loop, "dispatch") => th'[Loop].at = "dispatch")
    BY <2>1 DEF Only, At
  <2>2. \/ Goto(Loop, "recv") \/ th' = th
        \/ \E place \in {"send", "close"}, b \in {"idle", "dispatch"} : Call(Loop, place, b)
    BY <1>7, ConnAssumption DEF DispatchMessages
  <2>3. At(Loop, "dispatch") /\ UNCHANGED Flags /\ UNCHANGED Stream
    BY <1>7 DEF DispatchMessages, Flags, Stream
  <2> QED
    BY <1>0, <1>1, <1>2, <1>3, <2>1, <2>2, <2>3 DEF At, Shallow
<1>8. CASE UserStep
  BY <1>0, <1>2, <1>3, <1>8 DEF UserStep, UserSend, UserClose, At, Shallow, Flags, Stream
<1> QED
  BY <1>4, <1>5, <1>6, <1>7, <1>8

LEMMA StartCore ==
  ASSUME th \in [Threads -> Seat], CloseCore, Apart, Start
  PROVE  CloseCore'
<1>0. Loop \in Threads /\ User \in Threads /\ Loop # User
  BY ConnAssumption DEF Threads
<1>1. /\ th'[Loop].at = "idle" /\ th[Loop].at = "start" /\ Only(Loop)
      /\ table' = open /\ closed' = closed /\ open' = open /\ notified' = notified
  BY <1>0 DEF Start, Goto, At, Only, Seat, hist
<1>2. th[User].at \notin Closers /\ th'[User].at \notin Closers
  BY <1>0, <1>1 DEF Apart, At, Only
<1>3. \A t \in Threads : th[t].at \notin Deep /\ th'[t].at \notin Deep
  BY <1>1, <1>2 DEF Threads, Closers, Deep
<1>4. \A t \in Threads : Done(t) /\ Done(t)'
  BY <1>3 DEF Done, Deep
<1>5. \A t \in Threads : /\ ~At(t, "shut")' /\ ~At(t, "delfd")'
                         /\ ~At(t, "closefd")' /\ ~At(t, "finish")'
  BY <1>3 DEF At, Deep
<1> QED
  BY <1>1, <1>4, <1>5 DEF CloseCore

LEMMA CloserCore ==
  ASSUME th \in [Threads -> Seat], CloseCore, Apart, notified \in Nat, NEW t \in Threads,
         CloseTest(t) \/ CloseShut(t) \/ CloseDelFd(t) \/ CloseFd(t) \/ CloseFinish(t)
  PROVE  CloseCore'
<1>0. th[t] \in Seat /\ th[t].back \notin Closers /\ th[t].at \in Closers
  BY DEF Seat, Closers, CloseTest, CloseShut, CloseDelFd, CloseFd, CloseFinish, At
<1>1. \A u \in Threads : u # t => th[u].at \notin Closers
  BY <1>0 DEF Apart
<1>2. ASSUME Return(t) PROVE Only(t) /\ th'[t].at \notin Closers
  BY <1>0, <1>2 DEF Return, Only, Seat
<1>3. ASSUME NEW place \in Places, Goto(t, place) PROVE Only(t) /\ th'[t].at = place
  BY <1>0, <1>3 DEF Goto, Only, Seat
<1>4. ASSUME Only(t), NEW u \in Threads, u # t
      PROVE  /\ Done(u) /\ Done(u)'
             /\ ~At(u, "shut")' /\ ~At(u, "delfd")' /\ ~At(u, "closefd")' /\ ~At(u, "finish")'
  BY <1>1, <1>4 DEF Only, Done, At, Closers
<1>5. {"shut", "delfd", "closefd", "finish"} \subseteq Places
  BY DEF Places
<1>6. CASE CloseTest(t)
  <2>1. UNCHANGED Flags /\ th[t].at = "close"
    BY <1>6 DEF CloseTest, Flags, At, hist
  <2>2. CASE closed /\ Return(t)
    <3>1. Only(t) /\ th[t].at \notin Deep /\ th'[t].at \notin Deep
      BY <1>2, <2>1, <2>2 DEF Deep, Closers
    <3> QED
      BY <2>1, <3>1, QuietMove
  <2>3. CASE ~closed /\ Goto(t, "shut")
    <3>1. Only(t) /\ th'[t].at = "shut"
      BY <1>3, <1>5, <2>3
    <3> QED
      BY <1>4, <2>1, <2>3, <3>1 DEF CloseCore, Flags, Done, At
  <2> QED
    BY <1>6, <2>2, <2>3 DEF CloseTest, AlreadyClosed
<1>7. CASE CloseShut(t)
  <2>1. /\ th[t].at = "shut" /\ closed' = TRUE /\ open' = open /\ table' = table
        /\ notified' = notified
    BY <1>7 DEF CloseShut, At, hist
  <2>2. open /\ notified = 0
    BY <2>1 DEF CloseCore, At
  <2>3. Only(t) /\ th'[t].at = "delfd"
    BY <1>3, <1>5, <1>7, <2>2 DEF CloseShut
  <2> QED
    BY <1>4, <2>1, <2>2, <2>3 DEF CloseCore, Done, At
<1>8. CASE CloseDelFd(t)
  <2>1. /\ th[t].at = "delfd" /\ closed' = closed /\ open' = open /\ table' = FALSE
        /\ notified' = notified /\ Only(t) /\ th'[t].at = "closefd"
    BY <1>3, <1>5, <1>8 DEF CloseDelFd, DelFd, At, hist
  <2>2. open /\ notified = 0 /\ closed
    BY <2>1 DEF CloseCore, At, Done
  <2> QED
    BY <1>4, <2>1, <2>2 DEF CloseCore, Done, At
<1>9. CASE CloseFd(t)
  <2>1. /\ th[t].at = "closefd" /\ closed' = closed /\ open' = FALSE /\ table' = table
        /\ notified' = notified /\ Only(t) /\ th'[t].at = "finish"
    BY <1>3, <1>5, <1>9 DEF CloseFd, At, hist
  <2>2. ~table /\ notified = 0 /\ closed
    BY <2>1 DEF CloseCore, At, Done
  <2> QED
    BY <1>4, <2>1, <2>2 DEF CloseCore, Done, At
<1>10. CASE CloseFinish(t)
  <2>1. /\ th[t].at = "finish" /\ closed' = closed /\ open' = open /\ table' = table
        /\ notified' = notified + 1 /\ Only(t) /\ th'[t].at \notin Closers
    BY <1>2, <1>10 DEF CloseFinish, At
  <2>2. ~open /\ ~table /\ notified = 0 /\ closed
    BY <2>1 DEF CloseCore, At, Done
  <2> QED
    BY <1>4, <2>1, <2>2 DEF CloseCore, Done, At, Closers
<1> QED
  BY <1>6, <1>7, <1>8, <1>9, <1>10

(* A closed connection has left the Context's table and released its        *)
(* descriptor, and on_close_ has run once, for every order of the two       *)
(* threads' steps in which close_now overlaps neither itself nor Start      *)
(* (close_now and Start).                                                   *)
THEOREM ClosedIsReleased == Spec => []Released
<1>1. Init => CloseInv
  <2> SUFFICES ASSUME Init PROVE CloseInv
    OBVIOUS
  <2>1. \A t \in Threads : th[t].at \in {"accepted", "idle"}
    BY DEF Init
  <2>2. Overlaps = {}
    <3>1. Loop \in Threads /\ Sending # Threads /\ Closing # Threads /\ ~At(Loop, "start")
      BY <2>1 DEF Sending, Closing, Threads, At
    <3> QED
      BY <3>1 DEF Overlaps
  <2>3. \A t \in Threads : /\ Done(t)
                           /\ ~At(t, "shut") /\ ~At(t, "delfd") /\ ~At(t, "closefd") /\ ~At(t, "finish")
    BY <2>1 DEF Done, At
  <2>4. CloseCore
    BY <2>3 DEF CloseCore, Init
  <2> QED
    BY <2>2, <2>4 DEF CloseInv
<1>2. TypeOK /\ CloseInv /\ [Next]_vars => CloseInv'
  <2> SUFFICES ASSUME TypeOK, CloseInv, [Next]_vars PROVE CloseInv'
    OBVIOUS
  <2>0. th \in [Threads -> Seat] /\ notified \in Nat
    BY TypeParts DEF DataOK
  <2>1. CASE UNCHANGED vars
    BY <2>1 DEF vars, net, hist, CloseInv, CloseCore, Overlaps, Sending, Closing, At, Done, Alone
  <2>2. CASE Next
    <3>1. Step /\ overlap' = overlap \cup Overlaps'
      BY <2>2 DEF Next
    <3>2. SUFFICES ASSUME Alone' PROVE CloseCore'
      BY <3>1 DEF CloseInv
    <3>3. Alone
      BY <3>1, <3>2 DEF Alone
    <3>4. CloseCore /\ Apart
      BY <3>3, AloneApart DEF CloseInv
    <3>5. ASSUME NEW t \in Threads, CallStep(t) PROVE CloseCore'
      <4>1. CASE SendTest(t) \/ SendWrite(t) \/ HandleWrite(t) \/ WriteSome(t) \/ WriteRemove(t)
        BY <2>0, <3>4, <4>1, QuietCall, QuietMove
      <4>2. CASE CloseTest(t) \/ CloseShut(t) \/ CloseDelFd(t) \/ CloseFd(t) \/ CloseFinish(t)
        BY <2>0, <3>4, <4>2, CloserCore
      <4> QED
        BY <3>5, <4>1, <4>2 DEF CallStep
    <3>6. CASE Start
      BY <2>0, <3>4, <3>6, StartCore
    <3>7. CASE OnAccept \/ HandleEvent \/ HandleRead \/ DispatchMessages \/ UserStep
      BY <2>0, <3>4, <3>7, QuietOther, QuietMove DEF Shallow, Deep
    <3>8. CASE PeerStep
      BY <3>4, <3>8 DEF PeerStep, PeerSend, PeerRead, PeerEnds, hist, CloseCore, At, Done
    <3> QED
      BY <3>1, <3>5, <3>6, <3>7, <3>8 DEF Step, LoopStep
  <2> QED
    BY <2>1, <2>2
<1>3. CloseInv => Released
  <2> SUFFICES ASSUME CloseInv, closed, Settled, Alone PROVE ~table /\ ~open /\ notified = 1
    BY DEF Released, Alone
  <2>1. \A t \in Threads : Done(t)
    BY DEF Settled, Done, Threads
  <2> QED
    BY <2>1 DEF CloseInv, CloseCore
<1> QED
  BY <1>1, <1>2, <1>3, TypeCorrect, PTL DEF Spec

-----------------------------------------------------------------------------
(* The sending half.  close_now resets outbox_, so what holds of it holds   *)
(* until then; nobody who found the connection closed writes afterwards.    *)
Busy(t) == th[t].at \in {"write", "remove"}
ShutInv ==
  /\ \A t \in Threads : ~Done(t) => closed
  /\ notified > 0 =>
       /\ closed
       /\ \A t \in Threads : Busy(t) => outbox = <<>> /\ \A u \in Threads : ~At(u, "append")

StreamCore ==
  /\ \E r \in Seq(Bytes) : written = wire \o r
  /\ notified = 0 =>
       /\ (\A t \in Threads : ~At(t, "remove")) => wire \o outbox = written
       /\ \A t \in Threads : At(t, "remove") =>
            th[t].n <= Len(outbox) /\ wire \o SubSeq(outbox, th[t].n + 1, Len(outbox)) = written
StreamInv == Overlaps \subseteq overlap /\ ("send" \notin overlap => StreamCore)

LEMMA ShutCall ==
  ASSUME th \in [Threads -> Seat], DataOK, ShutInv, NEW t \in Threads, CallStep(t)
  PROVE  ShutInv'
<1>0. th[t] \in Seat /\ th[t].back \in {"idle", "start", "dispatch"} /\ th[t].n \in Nat
  BY DEF Seat
<1>1. notified \in Nat /\ outbox \in Seq(Bytes)
  BY DEF DataOK
<1>2. ASSUME Return(t) PROVE Only(t) /\ th'[t].at \in {"idle", "start", "dispatch"}
  BY <1>0, <1>2 DEF Return, Only, Seat
<1>3. ASSUME NEW place \in Places, Goto(t, place) PROVE Only(t) /\ th'[t].at = place
  BY <1>0, <1>3 DEF Goto, Only, Seat
<1>4. {"append", "enter", "write", "remove", "close", "shut", "delfd", "closefd", "finish"} \subseteq Places
  BY DEF Places
<1>5. CASE SendTest(t)
  <2>1. UNCHANGED <<closed, outbox, notified>>
    BY <1>5 DEF SendTest, hist
  <2>2. CASE Return(t)
    BY <1>2, <2>1, <2>2 DEF ShutInv, Only, Done, Busy, At
  <2>3. CASE ~closed /\ Goto(t, "append")
    BY <1>3, <1>4, <2>1, <2>3 DEF ShutInv, Only, Done, Busy, At
  <2> QED
    BY <1>5, <2>2, <2>3 DEF SendTest
<1>6. CASE SendWrite(t)
  <2>1. th[t].at = "append" /\ UNCHANGED <<closed, notified>> /\ Only(t) /\ th'[t].at = "enter"
    BY <1>3, <1>4, <1>6 DEF SendWrite, At
  <2> QED
    BY <2>1 DEF ShutInv, Only, Done, Busy, At
<1>7. CASE HandleWrite(t)
  <2>1. UNCHANGED <<closed, outbox, notified>>
    BY <1>7 DEF HandleWrite, hist
  <2>2. CASE Return(t)
    BY <1>2, <2>1, <2>2 DEF ShutInv, Only, Done, Busy, At
  <2>3. CASE ~closed /\ Goto(t, "write")
    BY <1>3, <1>4, <2>1, <2>3 DEF ShutInv, Only, Done, Busy, At
  <2> QED
    BY <1>7, <2>2, <2>3 DEF HandleWrite
<1>8. CASE WriteSome(t)
  <2>1. UNCHANGED <<closed, outbox, notified>> /\ th[t].at = "write"
    BY <1>8 DEF WriteSome, At
  <2>2. CASE Return(t)
    BY <1>2, <2>1, <2>2 DEF ShutInv, Only, Done, Busy, At
  <2>3. CASE th' = [th EXCEPT ![t].at = "remove", ![t].n = Taken]
    <3>1. Only(t) /\ th'[t].at = "remove"
      BY <1>0, <2>3 DEF Only, Seat
    <3> QED
      BY <2>1, <3>1 DEF ShutInv, Only, Done, Busy, At
  <2>4. CASE Goto(t, "close")
    BY <1>3, <1>4, <2>1, <2>4 DEF ShutInv, Only, Done, Busy, At
  <2> QED
    BY <1>8, <2>2, <2>3, <2>4 DEF WriteSome
<1>9. CASE WriteRemove(t)
  <2>1. /\ UNCHANGED <<closed, notified>> /\ th[t].at = "remove"
        /\ outbox' = SubSeq(outbox, th[t].n + 1, Len(outbox))
    BY <1>9 DEF WriteRemove, At, Sent, hist
  <2>2. outbox = <<>> => outbox' = <<>>
    BY <1>0, <1>1, <2>1, Behind
  <2>3. Only(t) /\ th'[t].at = "write"
    BY <1>0, <1>9 DEF WriteRemove, Only, Seat
  <2> QED
    BY <2>1, <2>2, <2>3 DEF ShutInv, Only, Done, Busy, At
<1>10. CASE CloseTest(t)
  <2>1. UNCHANGED <<closed, outbox, notified>>
    BY <1>10 DEF CloseTest, hist
  <2>2. Only(t) /\ th'[t].at \in {"idle", "start", "dispatch", "shut"}
    BY <1>2, <1>3, <1>4, <1>10 DEF CloseTest
  <2> QED
    BY <2>1, <2>2 DEF ShutInv, Only, Done, Busy, At
<1>11. CASE CloseShut(t) \/ CloseDelFd(t) \/ CloseFd(t)
  <2>1. UNCHANGED <<outbox, notified>> /\ closed' = TRUE
    BY <1>11 DEF CloseShut, CloseDelFd, CloseFd, hist, ShutInv, Done, At, DataOK
  <2>2. Only(t) /\ th'[t].at \in {"delfd", "closefd", "finish"}
    BY <1>3, <1>4, <1>11 DEF CloseShut, CloseDelFd, CloseFd
  <2> QED
    BY <2>1, <2>2 DEF ShutInv, Only, Done, Busy, At
<1>12. CASE CloseFinish(t)
  <2>1. closed /\ closed' = closed /\ outbox' = <<>>
    BY <1>12 DEF CloseFinish, ShutInv, Done, At
  <2>2. Only(t) /\ th'[t].at \in {"idle", "start", "dispatch"}
    BY <1>2, <1>12 DEF CloseFinish
  <2>3. \A u \in Threads, v \in Threads : u # t /\ v # t => u = v
    BY DEF Threads
  <2>4. \A u \in Threads, v \in Threads : ~(Busy(u)' /\ At(v, "append")')
    BY <2>2, <2>3 DEF Busy, At
  <2> QED
    BY <2>1, <2>2, <2>4 DEF ShutInv, Only, Done
<1> QED
  BY <1>5, <1>6, <1>7, <1>8, <1>9, <1>10, <1>11, <1>12 DEF CallStep

(* Start and PeerStep move nobody in or out of a call that matters here.    *)
LEMMA StillCalls ==
  ASSUME th \in [Threads -> Seat], LoopStep \/ UserStep \/ PeerStep
  PROVE  \/ th' = th /\ UNCHANGED <<closed, notified, Stream>>
         \/ \E t \in Threads : /\ UNCHANGED <<closed, notified, Stream>> /\ Only(t)
                               /\ th[t].at \in Shallow /\ th'[t].at \in Shallow
<1>1. CASE Start
  <2>1. Loop \in Threads
    BY DEF Threads
  <2>2. Only(Loop) /\ th[Loop].at = "start" /\ th'[Loop].at = "idle"
    BY <1>1, <2>1 DEF Start, Goto, Only, At, Seat
  <2> QED
    BY <1>1, <2>1, <2>2 DEF Start, Stream, Shallow, hist
<1>2. CASE OnAccept \/ HandleEvent \/ HandleRead \/ DispatchMessages \/ UserStep
  BY <1>2, QuietOther DEF Flags
<1>3. CASE PeerStep
  <2>1. th' = th /\ UNCHANGED <<closed, notified, Stream>>
    BY <1>3 DEF PeerStep, PeerSend, PeerRead, PeerEnds, Stream, hist
  <2> QED
    BY <2>1
<1> QED
  BY <1>1, <1>2, <1>3 DEF LoopStep

LEMMA ShutOther ==
  ASSUME th \in [Threads -> Seat], ShutInv, LoopStep \/ UserStep \/ PeerStep
  PROVE  ShutInv'
<1>1. CASE th' = th /\ UNCHANGED <<closed, notified, Stream>>
  BY <1>1 DEF ShutInv, Stream, Done, Busy, At
<1>2. ASSUME NEW t \in Threads, UNCHANGED <<closed, notified, Stream>>, Only(t),
             th[t].at \in Shallow, th'[t].at \in Shallow
      PROVE  ShutInv'
  BY <1>2 DEF ShutInv, Stream, Shallow, Only, Done, Busy, At
<1> QED
  BY <1>1, <1>2, StillCalls

(* One thread at a time is inside of Send's loop.                           *)
OneSends == \A t \in Threads, u \in Threads :
              t # u => ~(th[t].at \in {"enter", "write", "remove"} /\ th[u].at \in {"enter", "write", "remove"})

LEMMA BytesAssociative ==
  ASSUME NEW p \in Seq(Bytes), NEW q \in Seq(Bytes), NEW r \in Seq(Bytes)
  PROVE  p \o (q \o r) = (p \o q) \o r
BY ConcatAssociative

LEMMA SendsAlone ==
  ASSUME Overlaps \subseteq overlap, "send" \notin overlap
  PROVE  OneSends
<1>1. Sending # Threads
  BY DEF Overlaps
<1> QED
  BY <1>1 DEF OneSends, Sending, Threads

LEMMA QuietStream ==
  ASSUME StreamCore, UNCHANGED <<notified, Stream>>, NEW t \in Threads, Only(t),
         th[t].at # "remove", th'[t].at # "remove"
  PROVE  StreamCore'
<1>1. \A u \in Threads : /\ At(u, "remove")' <=> At(u, "remove")
                         /\ At(u, "remove") => th'[u] = th[u]
  BY DEF At, Only
<1>2. outbox' = outbox /\ wire' = wire /\ written' = written /\ notified' = notified
  BY DEF Stream
<1> QED
  BY <1>1, <1>2 DEF StreamCore

LEMMA SendWriteStream ==
  ASSUME th \in [Threads -> Seat], DataOK, StreamCore, NEW t \in Threads, SendWrite(t)
  PROVE  StreamCore'
<1>0. /\ outbox \in Seq(Bytes) /\ wire \in Seq(Bytes) /\ written \in Seq(Bytes)
      /\ Block \in Seq(Bytes)
  BY BlockType DEF DataOK
<1> DEFINE b == Block
<1>1. /\ outbox' = outbox \o b /\ written' = written \o b /\ wire' = wire
      /\ notified' = notified /\ th[t].at = "append"
  BY DEF SendWrite, At
<1>2. Only(t) /\ th'[t].at = "enter"
  BY DEF SendWrite, Goto, Only, Seat
<1>3. b \in Seq(Bytes)
  BY <1>0
<1> HIDE DEF b
<1>4. \A u \in Threads : /\ At(u, "remove")' <=> At(u, "remove")
                         /\ At(u, "remove") => th'[u].n = th[u].n
  BY <1>1, <1>2 DEF At, Only
<1>5. \E r \in Seq(Bytes) : written' = wire' \o r
  <2>1. PICK r \in Seq(Bytes) : written = wire \o r
    BY DEF StreamCore
  <2>2. written' = wire \o (r \o b) /\ r \o b \in Seq(Bytes)
    <3>0. wire \in Seq(Bytes)
      BY <1>0
    <3>1. (wire \o r) \o b = wire \o (r \o b)
      BY <3>0, <1>3, BytesAssociative, Zenon
    <3>2. r \o b \in Seq(Bytes)
      BY <1>3, ConcatProperties
    <3> QED
      BY <1>1, <2>1, <3>1, <3>2
  <2> QED
    BY <1>1, <2>2
<1>6. ASSUME notified = 0, \A u \in Threads : ~At(u, "remove")
      PROVE  wire' \o outbox' = written'
  <2>1. wire \o outbox = written
    BY <1>6 DEF StreamCore
  <2>2. wire \o (outbox \o b) = (wire \o outbox) \o b
    <3>1. wire \in Seq(Bytes) /\ outbox \in Seq(Bytes)
      BY <1>0
    <3> QED
      BY <3>1, <1>3, BytesAssociative, Zenon
  <2> QED
    BY <1>1, <2>1, <2>2
<1>7. ASSUME notified = 0, NEW u \in Threads, At(u, "remove")
      PROVE  th[u].n <= Len(outbox') /\ wire' \o SubSeq(outbox', th[u].n + 1, Len(outbox')) = written'
  <2> DEFINE n == th[u].n
             d == SubSeq(outbox, n + 1, Len(outbox))
  <2>1. n \in Nat /\ n <= Len(outbox) /\ wire \o d = written
    BY <1>7 DEF StreamCore, Seat
  <2>2. n \in 0..Len(outbox) /\ Len(outbox) \in Nat /\ Len(b) \in Nat
    BY <1>0, <1>3, <2>1, LenProperties
  <2>3. SubSeq(outbox \o b, n + 1, Len(outbox \o b)) = d \o b
    BY <1>0, <1>3, <2>2, BehindConcat
  <2>4. d \in Seq(Bytes)
    BY <1>0, <2>1, Behind
  <2>5. Len(outbox \o b) = Len(outbox) + Len(b)
    BY <1>0, <1>3, ConcatProperties
  <2> HIDE DEF d, n
  <2>6. wire \o (d \o b) = written \o b
    <3>0. wire \in Seq(Bytes)
      BY <1>0
    <3>1. (wire \o d) \o b = wire \o (d \o b)
      BY <3>0, <1>3, <2>4, BytesAssociative, Zenon
    <3> QED
      BY <2>1, <3>1
  <2>7. n <= Len(outbox \o b)
    BY <2>1, <2>2, <2>5
  <2> QED
    BY <1>1, <2>3, <2>6, <2>7 DEF n
<1> QED
  BY <1>1, <1>4, <1>5, <1>6, <1>7 DEF StreamCore

LEMMA WriteSomeStream ==
  ASSUME th \in [Threads -> Seat], DataOK, ShutInv, StreamCore, OneSends,
         NEW t \in Threads, WriteSome(t)
  PROVE  StreamCore'
<1>0. /\ outbox \in Seq(Bytes) /\ wire \in Seq(Bytes) /\ written \in Seq(Bytes)
      /\ notified \in Nat /\ SndBuf \in Nat /\ acked \in Nat /\ Len(wire) \in Nat
      /\ Len(outbox) \in Nat
  BY ConnAssumption, LenProperties DEF DataOK
<1>1. th[t].at = "write" /\ outbox' = outbox /\ written' = written /\ notified' = notified
  BY DEF WriteSome, At
<1>2. CASE Return(t) \/ Goto(t, "close")
  <2>2. Only(t) /\ th'[t].at # "remove"
    BY <1>2 DEF Return, Goto, Only, Seat
  <2>1. wire' = wire
    <3>1. CASE UNCHANGED wire
      BY <3>1
    <3>2. CASE th' = [th EXCEPT ![t].at = "remove", ![t].n = Taken]
      BY <2>2, <3>2 DEF Seat
    <3> QED
      BY <3>1, <3>2 DEF WriteSome
  <2> QED
    BY <1>1, <2>1, <2>2, QuietStream DEF Stream
<1>3. CASE /\ outbox # <<>> /\ Room > 0
           /\ wire' = wire \o SubSeq(outbox, 1, Taken)
           /\ th' = [th EXCEPT ![t].at = "remove", ![t].n = Taken]
  <2> DEFINE f == SubSeq(outbox, 1, Taken)
             d == SubSeq(outbox, Taken + 1, Len(outbox))
  <2>1. Taken \in 0..Len(outbox)
    BY <1>0, <1>3 DEF Taken, Room
  <2>2. f \in Seq(Bytes) /\ f \o d = outbox /\ d \in Seq(Bytes)
    <3>1. f \in Seq(Bytes) /\ f \o d = outbox
      BY <1>0, <2>1, Upto
    <3>2. Taken \in Nat
      BY <1>0, <2>1
    <3>3. d \in Seq(Bytes)
      BY <1>0, <3>2, Behind
    <3> QED
      BY <3>1, <3>3
  <2>3. notified = 0
    BY <1>0, <1>1, <1>3 DEF ShutInv, Busy
  <2>4. \A u \in Threads : ~At(u, "remove")
    BY <1>1 DEF OneSends, At
  <2>5. wire \o outbox = written
    BY <2>3, <2>4 DEF StreamCore
  <2>6. Only(t) /\ th'[t].at = "remove" /\ th'[t].n = Taken
    BY <1>3 DEF Only, Seat
  <2> HIDE DEF f, d
  <2>7. wire' \o d = written
    <3>1. wire \in Seq(Bytes) /\ f \in Seq(Bytes) /\ d \in Seq(Bytes)
      BY <1>0, <2>2
    <3>2. (wire \o f) \o d = wire \o (f \o d)
      BY <3>1, ConcatAssociative
    <3> QED
      BY <1>3, <2>2, <2>5, <3>2 DEF f
  <2>8. \A u \in Threads : At(u, "remove")' => u = t
    BY <2>4, <2>6 DEF Only, At
  <2> QED
    <3>1. \E r \in Seq(Bytes) : written' = wire' \o r
      BY <1>1, <2>2, <2>7
    <3>2. At(t, "remove")'
      BY <2>6 DEF At
    <3>3. ASSUME NEW u \in Threads, At(u, "remove")'
          PROVE  /\ th'[u].n <= Len(outbox')
                 /\ wire' \o SubSeq(outbox', th'[u].n + 1, Len(outbox')) = written'
      <4>1. th'[u].n = Taken /\ Taken <= Len(outbox)
        BY <1>0, <2>1, <2>6, <2>8, <3>3
      <4>2. SubSeq(outbox', th'[u].n + 1, Len(outbox')) = d
        BY <1>1, <4>1 DEF d
      <4> QED
        BY <1>1, <2>7, <4>1, <4>2
    <3> QED
      BY <3>1, <3>2, <3>3 DEF StreamCore
<1> QED
  BY <1>2, <1>3 DEF WriteSome

LEMMA RemoveStream ==
  ASSUME th \in [Threads -> Seat], DataOK, StreamCore, OneSends, NEW t \in Threads, WriteRemove(t)
  PROVE  StreamCore'
<1>1. /\ th[t].at = "remove" /\ wire' = wire /\ written' = written /\ notified' = notified
      /\ outbox' = SubSeq(outbox, th[t].n + 1, Len(outbox))
  BY DEF WriteRemove, At, Sent, hist
<1>2. Only(t) /\ th'[t].at = "write"
  BY DEF WriteRemove, Only, Seat
<1>3. \A u \in Threads : ~At(u, "remove")'
  BY <1>1, <1>2 DEF OneSends, Only, At
<1>4. notified = 0 => wire' \o outbox' = written'
  BY <1>1 DEF StreamCore, At
<1> QED
  BY <1>1, <1>3, <1>4 DEF StreamCore

LEMMA CallStream ==
  ASSUME th \in [Threads -> Seat], DataOK, ShutInv, StreamCore, OneSends,
         NEW t \in Threads, CallStep(t)
  PROVE  StreamCore'
<1>0. th[t] \in Seat /\ th[t].back # "remove" /\ notified \in Nat
  BY DEF Seat, DataOK
<1>1. ASSUME Return(t) PROVE Only(t) /\ th'[t].at # "remove"
  BY <1>0, <1>1 DEF Return, Only, Seat
<1>2. ASSUME NEW place \in Places \ {"remove"}, Goto(t, place) PROVE Only(t) /\ th'[t].at # "remove"
  BY <1>0, <1>2 DEF Goto, Only, Seat
<1>3. {"append", "enter", "write", "shut", "delfd", "closefd", "finish"} \subseteq Places \ {"remove"}
  BY DEF Places
<1>4. CASE SendTest(t) \/ HandleWrite(t)
  <2>1. UNCHANGED <<notified, Stream>> /\ th[t].at # "remove"
    BY <1>4 DEF SendTest, HandleWrite, Stream, At, hist
  <2>2. Only(t) /\ th'[t].at # "remove"
    BY <1>1, <1>2, <1>3, <1>4 DEF SendTest, HandleWrite
  <2> QED
    BY <2>1, <2>2, QuietStream
<1>5. CASE SendWrite(t)
  BY <1>5, SendWriteStream
<1>6. CASE WriteSome(t)
  BY <1>6, WriteSomeStream
<1>7. CASE WriteRemove(t)
  BY <1>7, RemoveStream
<1>8. CASE CloseTest(t) \/ CloseShut(t) \/ CloseDelFd(t) \/ CloseFd(t)
  <2>1. UNCHANGED <<notified, Stream>> /\ th[t].at # "remove"
    BY <1>8 DEF CloseTest, CloseShut, CloseDelFd, CloseFd, Stream, At, hist
  <2>2. Only(t) /\ th'[t].at # "remove"
    BY <1>1, <1>2, <1>3, <1>8 DEF CloseTest, CloseShut, CloseDelFd, CloseFd
  <2> QED
    BY <2>1, <2>2, QuietStream
<1>9. CASE CloseFinish(t)
  <2>1. wire' = wire /\ written' = written /\ notified' # 0
    BY <1>0, <1>9 DEF CloseFinish
  <2> QED
    BY <2>1 DEF StreamCore
<1> QED
  BY <1>4, <1>5, <1>6, <1>7, <1>8, <1>9 DEF CallStep

(* The peer gets what was passed to Send, in order, with no gap and nothing *)
(* twice, and on an open connection what it lacks is in the outbox, unless  *)
(* two threads were in Send's loop at once (Send and HandleWrite).          *)
THEOREM StreamIsIntact == Spec => []StreamIntact
<1>1. Init => ShutInv /\ StreamInv
  <2> SUFFICES ASSUME Init PROVE ShutInv /\ StreamInv
    OBVIOUS
  <2>1. \A t \in Threads : th[t].at \in {"accepted", "idle"}
    BY DEF Init
  <2>2. Overlaps = {}
    <3>1. Loop \in Threads /\ Sending # Threads /\ Closing # Threads /\ ~At(Loop, "start")
      BY <2>1 DEF Sending, Closing, Threads, At
    <3> QED
      BY <3>1 DEF Overlaps
  <2>3. ShutInv
    BY <2>1 DEF ShutInv, Done, Init
  <2>4. StreamCore
    <3>1. <<>> \in Seq(Bytes) /\ <<>> \o <<>> = <<>>
      BY EmptySeq, ConcatEmptySeq
    <3>2. wire = <<>> /\ outbox = <<>> /\ written = <<>>
      BY DEF Init
    <3>3. \A t \in Threads : ~At(t, "remove")
      BY <2>1 DEF At
    <3> QED
      BY <3>1, <3>2, <3>3 DEF StreamCore
  <2> QED
    BY <2>2, <2>3, <2>4 DEF StreamInv
<1>2. TypeOK /\ ShutInv /\ StreamInv /\ [Next]_vars => ShutInv' /\ StreamInv'
  <2> SUFFICES ASSUME TypeOK, ShutInv, StreamInv, [Next]_vars PROVE ShutInv' /\ StreamInv'
    OBVIOUS
  <2>0. th \in [Threads -> Seat] /\ DataOK
    BY TypeParts
  <2>1. CASE UNCHANGED vars
    BY <2>1 DEF vars, net, hist, StreamInv, StreamCore, ShutInv, Overlaps, Sending, Closing, At, Done, Busy
  <2>2. CASE Next
    <3>1. Step /\ overlap' = overlap \cup Overlaps'
      BY <2>2 DEF Next
    <3>2. ShutInv'
      BY <2>0, <3>1, ShutCall, ShutOther DEF Step
    <3>3. ASSUME "send" \notin overlap' PROVE StreamCore'
      <4>1. "send" \notin overlap /\ StreamCore /\ OneSends
        BY <3>1, <3>3, SendsAlone DEF StreamInv
      <4>2. ASSUME NEW t \in Threads, CallStep(t) PROVE StreamCore'
        BY <2>0, <4>1, <4>2, CallStream
      <4>3. CASE LoopStep \/ UserStep \/ PeerStep
        <5>1. CASE th' = th /\ UNCHANGED <<closed, notified, Stream>>
          BY <4>1, <5>1 DEF StreamCore, Stream, At
        <5>2. ASSUME NEW t \in Threads, UNCHANGED <<closed, notified, Stream>>, Only(t),
                     th[t].at \in Shallow, th'[t].at \in Shallow
              PROVE  StreamCore'
          BY <4>1, <5>2, QuietStream DEF Shallow
        <5> QED
          BY <2>0, <4>3, <5>1, <5>2, StillCalls
      <4> QED
        BY <3>1, <4>2, <4>3 DEF Step
    <3> QED
      BY <3>1, <3>2, <3>3 DEF StreamInv
  <2> QED
    BY <2>1, <2>2
<1>3. TypeOK /\ ShutInv /\ StreamInv => StreamIntact
  <2> SUFFICES ASSUME TypeOK, ShutInv, StreamInv, "send" \notin overlap
               PROVE  /\ wire = SubSeq(written, 1, Len(wire))
                      /\ ~closed /\ (\A t \in Threads : ~At(t, "remove")) => wire \o outbox = written
    BY DEF StreamIntact
  <2>1. DataOK /\ StreamCore
    BY TypeParts DEF StreamInv
  <2>2. PICK r \in Seq(Bytes) : written = wire \o r
    BY <2>1 DEF StreamCore
  <2>3. SubSeq(wire \o r, 1, Len(wire)) = wire
    BY <2>1, Begins DEF DataOK
  <2>4. ~closed => notified = 0
    BY <2>1 DEF ShutInv, DataOK
  <2> QED
    BY <2>1, <2>2, <2>3, <2>4 DEF StreamCore
<1> QED
  BY <1>1, <1>2, <1>3, TypeCorrect, PTL DEF Spec
=============================================================================
