--------------------------- MODULE ChannelProofs ---------------------------
(***************************************************************************)
(* Theorems about Channel, for every number of writers, readers and         *)
(* elements and every capacity.                                             *)
(***************************************************************************)
EXTENDS Channel, FiniteSetTheorems, SequenceTheorems, TLAPS

-----------------------------------------------------------------------------
(* A notification moves threads from "wait" to "woken" and touches nobody   *)
(* else.                                                                    *)
Wakes(p, q) ==
  /\ DOMAIN q = DOMAIN p
  /\ \A t \in DOMAIN p : q[t] = p[t] \/ (p[t] = "wait" /\ q[t] = "woken")

(* notify_one and notify_all, for the channel's threads.                    *)
LEMMA OneWakes ==
  ASSUME NEW p \in [Threads -> WriterPC \cup ReaderPC], NEW q \in NotifyOne(p)
  PROVE  q \in [Threads -> WriterPC \cup ReaderPC] /\ Wakes(p, q)
<1>1. "woken" \in WriterPC \cup ReaderPC
  BY DEF WriterPC
<1>2. CASE Asleep(p) = {}
  BY <1>2 DEF NotifyOne, Wakes
<1>3. CASE Asleep(p) # {}
  <2>1. PICK t \in Asleep(p) : q = [p EXCEPT ![t] = "woken"]
    BY <1>3 DEF NotifyOne
  <2> QED
    BY <1>1, <2>1 DEF Wakes, Asleep
<1> QED
  BY <1>2, <1>3

LEMMA AllWakes ==
  ASSUME NEW p \in [Threads -> WriterPC \cup ReaderPC]
  PROVE  NotifyAll(p) \in [Threads -> WriterPC \cup ReaderPC] /\ Wakes(p, NotifyAll(p))
<1>1. "woken" \in WriterPC \cup ReaderPC
  BY DEF WriterPC
<1> QED
  BY <1>1 DEF NotifyAll, Wakes, Asleep

-----------------------------------------------------------------------------
(* How many of the threads D are at one of the places A.                    *)
Count(D, A, p) == Cardinality({t \in D : p[t] \in A})

LEMMA CountIsNat ==
  ASSUME NEW D, IsFiniteSet(D), NEW A, NEW p
  PROVE  IsFiniteSet({t \in D : p[t] \in A}) /\ Count(D, A, p) \in Nat
<1>1. {t \in D : p[t] \in A} \in SUBSET D
  OBVIOUS
<1> QED
  BY <1>1, FS_Subset, FS_CardinalityType DEF Count

(* Somebody is at A exactly if the number is not 0; it is at most the number*)
(* of threads, and less if one of them is elsewhere.                        *)
LEMMA CountBounds ==
  ASSUME NEW D, IsFiniteSet(D), NEW A, NEW p
  PROVE  /\ Count(D, A, p) <= Cardinality(D)
         /\ \A t \in D : p[t] \in A => Count(D, A, p) > 0
         /\ \A t \in D : p[t] \notin A => Count(D, A, p) < Cardinality(D)
         /\ (\A t \in D : p[t] \notin A) => Count(D, A, p) = 0
<1> DEFINE P == {t \in D : p[t] \in A}
<1>1. IsFiniteSet(P) /\ Count(D, A, p) = Cardinality(P)
  BY CountIsNat DEF Count
<1>2. /\ P \in SUBSET D
      /\ \A t \in D : (p[t] \in A => P # {}) /\ (p[t] \notin A => P # D)
      /\ (\A t \in D : p[t] \notin A) => P = {}
  OBVIOUS
<1> HIDE DEF P
<1>3. /\ Cardinality(P) \in Nat /\ Cardinality(D) \in Nat
      /\ Cardinality(P) = 0 <=> P = {}
  BY <1>1, FS_EmptySet, FS_CardinalityType
<1>4. Cardinality(P) <= Cardinality(D) /\ (P # D => Cardinality(P) # Cardinality(D))
  BY <1>2, FS_Subset
<1> QED
  BY <1>1, <1>2, <1>3, <1>4

LEMMA CountBoth ==
  ASSUME NEW D, IsFiniteSet(D), NEW A, NEW B, A \cap B = {}, NEW p
  PROVE  Count(D, A \cup B, p) = Count(D, A, p) + Count(D, B, p)
<1> DEFINE P == {t \in D : p[t] \in A}
           Q == {t \in D : p[t] \in B}
<1>1. /\ IsFiniteSet(P) /\ IsFiniteSet(Q)
      /\ Count(D, A, p) = Cardinality(P) /\ Count(D, B, p) = Cardinality(Q)
  BY CountIsNat DEF Count
<1>2. P \cup Q = {t \in D : p[t] \in A \cup B} /\ P \cap Q = {}
  OBVIOUS
<1> HIDE DEF P, Q
<1>3. Cardinality(P \cup Q) = Cardinality(P) + Cardinality(Q) - Cardinality(P \cap Q)
  BY <1>1, FS_Union, Zenon
<1>4. Cardinality(P) \in Nat /\ Cardinality(Q) \in Nat
  BY <1>1, FS_CardinalityType
<1>5. Cardinality(P \cup Q) = Cardinality(P) + Cardinality(Q)
  <2>1. Cardinality(P \cap Q) = 0
    BY <1>2, FS_EmptySet, Zenon
  <2> QED
    BY <1>3, <1>4, <2>1
<1> QED
  BY <1>1, <1>2, <1>5 DEF Count

(* One thread moves: the count follows where it was and where it is.        *)
CountMoves(D, A, p, t, c, q) ==
  /\ t \notin D => Count(D, A, q) = Count(D, A, p)
  /\ (p[t] \in A <=> c \in A) => Count(D, A, q) = Count(D, A, p)
  /\ t \in D /\ p[t] \in A /\ c \notin A => Count(D, A, q) = Count(D, A, p) - 1
  /\ t \in D /\ p[t] \notin A /\ c \in A => Count(D, A, q) = Count(D, A, p) + 1

LEMMA CountMove ==
  ASSUME NEW D, IsFiniteSet(D), NEW A, NEW T, NEW S, D \subseteq T,
         NEW p \in [T -> S], NEW t \in T, NEW c
  PROVE  CountMoves(D, A, p, t, c, [p EXCEPT ![t] = c])
<1> DEFINE q == [p EXCEPT ![t] = c]
           P == {x \in D : p[x] \in A}
           Q == {x \in D : q[x] \in A}
<1>0. IsFiniteSet(P) /\ Count(D, A, p) = Cardinality(P) /\ Count(D, A, q) = Cardinality(Q)
  BY CountIsNat DEF Count
<1>1. q[t] = c /\ \A x \in T : x # t => q[x] = p[x]
  OBVIOUS
<1>2. ASSUME t \notin D \/ (p[t] \in A <=> c \in A) PROVE Q = P
  BY <1>1, <1>2
<1>3. ASSUME t \in D, p[t] \in A, c \notin A PROVE Q = P \ {t} /\ t \in P
  BY <1>1, <1>3
<1>4. ASSUME t \in D, p[t] \notin A, c \in A PROVE Q = P \cup {t} /\ t \notin P
  BY <1>1, <1>4
<1> HIDE DEF P, Q, q
<1>5. /\ t \in P => Cardinality(P \ {t}) = Cardinality(P) - 1
      /\ t \notin P => Cardinality(P \cup {t}) = Cardinality(P) + 1
  BY <1>0, FS_AddElement, FS_RemoveElement
<1>6. CountMoves(D, A, p, t, c, q)
  BY <1>0, <1>2, <1>3, <1>4, <1>5 DEF CountMoves
<1> QED
  BY <1>6 DEF q

-----------------------------------------------------------------------------
(* The pc part of the type invariant, and how a step may move it.           *)
PcOK(p) ==
  /\ p \in [Threads -> WriterPC \cup ReaderPC]
  /\ \A w \in Writers : p[w] \in WriterPC
  /\ \A r \in Readers : p[r] \in ReaderPC

LEMMA WakesKeepsPcOK ==
  ASSUME NEW p, PcOK(p), NEW q, q \in [Threads -> WriterPC \cup ReaderPC], Wakes(p, q)
  PROVE  PcOK(q)
BY DEF PcOK, Wakes, WriterPC, ReaderPC, Threads

LEMMA WriterMovePcOK ==
  ASSUME NEW p, PcOK(p), NEW w \in Writers, NEW s \in WriterPC, ChannelAssumption
  PROVE  PcOK([p EXCEPT ![w] = s])
BY DEF PcOK, Threads, ChannelAssumption

LEMMA ReaderMovePcOK ==
  ASSUME NEW p, PcOK(p), NEW r \in Readers, NEW s \in ReaderPC, ChannelAssumption
  PROVE  PcOK([p EXCEPT ![r] = s])
BY DEF PcOK, Threads, ChannelAssumption

(* What any step does to pc while keeping it typed.                         *)
LEMMA PcStep ==
  ASSUME TypeOK, [Next]_vars
  PROVE  PcOK(pc')
<1> USE ChannelAssumption
<1>0. /\ PcOK(pc) /\ pc \in [Threads -> WriterPC \cup ReaderPC]
      /\ "woken" \in WriterPC \cup ReaderPC
  BY DEF TypeOK, PcOK, WriterPC
<1>1. ASSUME NEW w \in Writers, WriteCheck(w) PROVE PcOK(pc')
  <2>1. (IF closed THEN "threw" ELSE "enter") \in WriterPC
    BY DEF WriterPC
  <2> QED
    BY <1>0, <1>1, <2>1, WriterMovePcOK DEF WriteCheck
<1>2. ASSUME NEW w \in Writers, CloseStore(w) PROVE PcOK(pc')
  BY <1>0, <1>2, WriterMovePcOK DEF CloseStore, WriterPC
<1>3. ASSUME NEW w \in Writers, WriteLocked(w) PROVE PcOK(pc')
  <2>1. "notify" \in WriterPC /\ "wait" \in WriterPC
    BY DEF WriterPC
  <2>2. pc' = [pc EXCEPT ![w] = "notify"] \/ pc' = [pc EXCEPT ![w] = "wait"]
    BY <1>3 DEF WriteLocked
  <2> QED
    BY <1>0, <2>1, <2>2, WriterMovePcOK
<1>4. ASSUME NEW w \in Writers, WriteNotify(w) PROVE PcOK(pc')
  <2>1. PcOK([pc EXCEPT ![w] = "idle"])
    BY <1>0, WriterMovePcOK DEF WriterPC
  <2>2. /\ pc' \in [Threads -> WriterPC \cup ReaderPC]
        /\ Wakes([pc EXCEPT ![w] = "idle"], pc')
    <3>1. [pc EXCEPT ![w] = "idle"] \in [Threads -> WriterPC \cup ReaderPC]
      BY <2>1 DEF PcOK
    <3> QED
      BY <1>0, <1>4, <3>1, OneWakes DEF WriteNotify
  <2> QED
    BY <2>1, <2>2, WakesKeepsPcOK
<1>5. ASSUME NEW w \in Writers, CloseNotify(w) PROVE PcOK(pc')
  <2>1. PcOK([pc EXCEPT ![w] = "idle"])
    BY <1>0, WriterMovePcOK DEF WriterPC
  <2>2. /\ pc' \in [Threads -> WriterPC \cup ReaderPC]
        /\ Wakes([pc EXCEPT ![w] = "idle"], pc')
    <3>1. [pc EXCEPT ![w] = "idle"] \in [Threads -> WriterPC \cup ReaderPC]
      BY <2>1 DEF PcOK
    <3>2. pc' = NotifyAll([pc EXCEPT ![w] = "idle"])
      BY <1>5 DEF CloseNotify, CloseWakes
    <3> QED
      BY <1>0, <3>1, <3>2, AllWakes
  <2> QED
    BY <2>1, <2>2, WakesKeepsPcOK
<1>6. ASSUME NEW r \in Readers, ReadCall(r) PROVE PcOK(pc')
  <2>1. (IF LoopGoesOn(r) THEN "call" ELSE "done") \in ReaderPC
    BY DEF ReaderPC
  <2> QED
    BY <1>0, <1>6, <2>1, ReaderMovePcOK DEF ReadCall
<1>7. ASSUME NEW r \in Readers, ReadCheck(r) PROVE PcOK(pc')
  <2>1. "idle" \in ReaderPC /\ "enter" \in ReaderPC
    BY DEF ReaderPC
  <2>2. pc' = [pc EXCEPT ![r] = "idle"] \/ pc' = [pc EXCEPT ![r] = "enter"]
    BY <1>7 DEF ReadCheck
  <2> QED
    BY <1>0, <2>1, <2>2, ReaderMovePcOK
<1>8. AfterWait \in ReaderPC
  BY DEF AfterWait, ReaderPC
<1>9. ASSUME NEW r \in Readers, ReadEnter(r) PROVE PcOK(pc')
  <2>1. PICK p \in NotifyOne(pc) : pc' = [p EXCEPT ![r] = AfterWait]
    BY <1>9 DEF ReadEnter, ReadEnterWakes
  <2>2. p \in [Threads -> WriterPC \cup ReaderPC] /\ Wakes(pc, p)
    BY <1>0, <2>1, OneWakes
  <2>3. PcOK(p)
    BY <1>0, <2>2, WakesKeepsPcOK
  <2> QED
    BY <2>1, <2>3, <1>8, ReaderMovePcOK
<1>10. ASSUME NEW r \in Readers, ReadWoken(r) PROVE PcOK(pc')
  BY <1>0, <1>8, <1>10, ReaderMovePcOK DEF ReadWoken
<1>11. ASSUME NEW t \in Threads, SpuriousWake(t) PROVE PcOK(pc')
  <2>1. CASE t \in Writers
    BY <1>0, <1>11, <2>1, WriterMovePcOK DEF SpuriousWake, WriterPC
  <2>2. CASE t \in Readers
    BY <1>0, <1>11, <2>2, ReaderMovePcOK DEF SpuriousWake, ReaderPC
  <2> QED
    BY <2>1, <2>2 DEF Threads
<1>12. CASE UNCHANGED vars
  BY <1>0, <1>12 DEF vars
<1> QED
  BY <1>1, <1>2, <1>3, <1>4, <1>5, <1>6, <1>7, <1>9, <1>10, <1>11, <1>12
     DEF Next, WriterStep, ReaderStep

-----------------------------------------------------------------------------
LEMMA YieldType ==
  ASSUME TypeOK, NEW r \in Readers, NEW v \in Elements \cup {NoValue}, Yield(r, v)
  PROVE  yielded' \in [Readers -> Seq(Elements \cup {NoValue})]
<1>1. yielded[r] \in Seq(Elements \cup {NoValue})
  BY DEF TypeOK
<1>2. Append(yielded[r], v) \in Seq(Elements \cup {NoValue})
  BY <1>1, AppendProperties
<1> QED
  BY <1>2 DEF Yield, TypeOK

(* The three ways out of the wait in >>: take the oldest element, leave a   *)
(* closed channel empty-handed, or go to sleep.                             *)
LEMMA ReadWaitCases ==
  ASSUME TypeOK, NEW r \in Readers, ReadWait(r)
  PROVE  \/ /\ queue # <<>> /\ AfterWait = "idle"
            /\ Head(queue) \in Elements /\ queue' = Tail(queue)
            /\ queue' \in Seq(Elements) /\ Len(queue') = Len(queue) - 1
            /\ out' = [out EXCEPT ![r] = Head(queue)]
            /\ taken' = Append(taken, [by |-> r, val |-> Head(queue)])
            /\ Yield(r, Head(queue)) /\ abandoned' = abandoned
         \/ /\ queue = <<>> /\ closed /\ AfterWait = "idle"
            /\ abandoned' = abandoned + 1 /\ Yield(r, out[r])
            /\ UNCHANGED <<queue, out, taken>>
         \/ /\ queue = <<>> /\ ~closed /\ AfterWait = "wait"
            /\ UNCHANGED <<queue, out, taken, yielded, abandoned>>
<1>0. queue \in Seq(Elements)
  BY DEF TypeOK
<1>1. CASE queue # <<>>
  <2>1. /\ Head(queue) \in Elements /\ Tail(queue) \in Seq(Elements)
        /\ Len(Tail(queue)) = Len(queue) - 1
    BY <1>0, <1>1, HeadTailProperties
  <2> QED
    BY <1>1, <2>1 DEF ReadWait, ReadReturn, CanRead, AfterWait, Pop
<1>2. CASE queue = <<>>
  BY <1>2 DEF ReadWait, ReadReturn, CanRead, AfterWait
<1> QED
  BY <1>1, <1>2

LEMMA ReadWaitType ==
  ASSUME TypeOK, NEW r \in Readers, ReadWait(r)
  PROVE  /\ queue' \in Seq(Elements)
         /\ out' \in [Readers -> Elements \cup {NoValue}]
         /\ taken' \in Seq([by : Readers, val : Elements])
         /\ yielded' \in [Readers -> Seq(Elements \cup {NoValue})]
         /\ abandoned' \in Nat
<1>0. /\ queue \in Seq(Elements) /\ out \in [Readers -> Elements \cup {NoValue}]
      /\ taken \in Seq([by : Readers, val : Elements]) /\ abandoned \in Nat
      /\ yielded \in [Readers -> Seq(Elements \cup {NoValue})]
  BY DEF TypeOK
<1>1. CASE /\ Head(queue) \in Elements /\ queue' \in Seq(Elements)
           /\ out' = [out EXCEPT ![r] = Head(queue)]
           /\ taken' = Append(taken, [by |-> r, val |-> Head(queue)])
           /\ Yield(r, Head(queue)) /\ abandoned' = abandoned
  <2>1. [by |-> r, val |-> Head(queue)] \in [by : Readers, val : Elements]
    BY <1>1
  <2>2. taken' \in Seq([by : Readers, val : Elements])
    BY <1>0, <1>1, <2>1, AppendProperties
  <2>3. out' \in [Readers -> Elements \cup {NoValue}]
    BY <1>0, <1>1
  <2> QED
    BY <1>0, <1>1, <2>2, <2>3, YieldType
<1>2. CASE /\ abandoned' = abandoned + 1 /\ Yield(r, out[r])
           /\ UNCHANGED <<queue, out, taken>>
  BY <1>0, <1>2, YieldType
<1>3. CASE UNCHANGED <<queue, out, taken, yielded, abandoned>>
  BY <1>0, <1>3
<1> QED
  BY <1>1, <1>2, <1>3, ReadWaitCases

(* A writer inside << has an element left to send: it is what keeps sent    *)
(* within Quota, and with TypeOK it is inductive.                           *)
SendsLeft ==
  \A w \in Writers : pc[w] \in {"enter", "wait", "woken"} => sent[w] < Quota

LEMMA WriteLockedType ==
  ASSUME TypeOK, SendsLeft, NEW w \in Writers, WriteLocked(w)
  PROVE  /\ queue' \in Seq(Elements) /\ size' \in Int
         /\ sent' \in [Writers -> 0..Quota] /\ pushed' \in Seq(Elements)
<1> USE ChannelAssumption
<1>0. /\ queue \in Seq(Elements) /\ pushed \in Seq(Elements)
      /\ size \in Int /\ sent \in [Writers -> 0..Quota]
  BY DEF TypeOK
<1>1. CASE /\ Push(<<w, sent[w] + 1>>) /\ pushed' = Append(pushed, <<w, sent[w] + 1>>)
           /\ size' = size + 1 /\ sent' = [sent EXCEPT ![w] = @ + 1]
  <2>1. sent[w] + 1 \in 1..Quota
    BY <1>0 DEF SendsLeft, WriteLocked, ChannelAssumption
  <2>2. <<w, sent[w] + 1>> \in Elements
    BY <2>1 DEF Elements
  <2>3. queue' \in Seq(Elements) /\ pushed' \in Seq(Elements)
    BY <1>0, <1>1, <2>2, AppendProperties DEF Push
  <2> QED
    BY <1>0, <1>1, <2>1, <2>3
<1>2. CASE UNCHANGED <<queue, size, sent, pushed>>
  BY <1>0, <1>2
<1> QED
  BY <1>1, <1>2 DEF WriteLocked

LEMMA TypeStep == TypeOK /\ SendsLeft /\ [Next]_vars => TypeOK'
<1> USE ChannelAssumption
<1> SUFFICES ASSUME TypeOK, SendsLeft, [Next]_vars PROVE TypeOK'
  OBVIOUS
<1>0. PcOK(pc')
  BY PcStep
<1>1. ASSUME NEW w \in Writers, WriteCheck(w) \/ WriteNotify(w) \/ CloseNotify(w)
      PROVE  TypeOK'
  BY <1>0, <1>1 DEF TypeOK, PcOK, WriteCheck, WriteNotify, CloseNotify
<1>2. ASSUME NEW w \in Writers, CloseStore(w) PROVE TypeOK'
  BY <1>0, <1>2 DEF TypeOK, PcOK, CloseStore
<1>3. ASSUME NEW w \in Writers, WriteLocked(w) PROVE TypeOK'
  <2>1. UNCHANGED <<closed, out, taken, yielded, abandoned>>
    BY <1>3 DEF WriteLocked
  <2> QED
    BY <1>0, <1>3, <2>1, WriteLockedType DEF TypeOK, PcOK
<1>4. ASSUME NEW r \in Readers, ReadCall(r) PROVE TypeOK'
  BY <1>0, <1>4 DEF TypeOK, PcOK, ReadCall
<1>5. ASSUME NEW r \in Readers, ReadCheck(r) PROVE TypeOK'
  <2>1. out[r] \in Elements \cup {NoValue}
    BY DEF TypeOK
  <2>2. yielded' \in [Readers -> Seq(Elements \cup {NoValue})]
    BY <1>5, <2>1, YieldType DEF ReadCheck, TypeOK
  <2> QED
    BY <1>0, <1>5, <2>2 DEF TypeOK, PcOK, ReadCheck
<1>6. ASSUME NEW r \in Readers, ReadEnter(r) \/ ReadWoken(r) PROVE TypeOK'
  <2>1. ReadWait(r) /\ size' \in Int /\ UNCHANGED <<closed, sent, pushed>>
    BY <1>6 DEF ReadEnter, ReadWoken, Claim, TypeOK
  <2> QED
    BY <1>0, <2>1, ReadWaitType DEF TypeOK, PcOK
<1>7. ASSUME NEW t \in Threads, SpuriousWake(t) PROVE TypeOK'
  BY <1>0, <1>7 DEF TypeOK, PcOK, SpuriousWake
<1>8. CASE UNCHANGED vars
  BY <1>8 DEF TypeOK, vars
<1> QED
  BY <1>1, <1>2, <1>3, <1>4, <1>5, <1>6, <1>7, <1>8 DEF Next, WriterStep, ReaderStep

(* A writer is inside << only if it was already, and then nothing was       *)
(* counted as sent, or if its check has just let it in.                     *)
LEMMA SendsStep == TypeOK /\ SendsLeft /\ [Next]_vars => SendsLeft'
<1> USE ChannelAssumption
<1> SUFFICES ASSUME TypeOK, SendsLeft, [Next]_vars,
                    NEW v \in Writers, pc'[v] \in {"enter", "wait", "woken"}
             PROVE  sent'[v] < Quota
  BY DEF SendsLeft
<1>0. /\ pc \in [Threads -> WriterPC \cup ReaderPC]
      /\ sent \in [Writers -> 0..Quota] /\ v \in Threads /\ v \notin Readers
      /\ "woken" \in WriterPC \cup ReaderPC
  BY DEF TypeOK, Threads, ChannelAssumption, WriterPC
<1>1. ASSUME NEW w \in Writers, WriteCheck(w) \/ CloseStore(w) PROVE sent'[v] < Quota
  BY <1>0, <1>1 DEF WriteCheck, CloseStore, SendsLeft
<1>2. ASSUME NEW w \in Writers, WriteLocked(w) PROVE sent'[v] < Quota
  BY <1>0, <1>2 DEF WriteLocked, SendsLeft
<1>3. ASSUME NEW p \in [Threads -> WriterPC \cup ReaderPC], Wakes(p, pc'),
             p[v] = pc[v] \/ p[v] \notin {"enter", "wait", "woken"}, sent' = sent
      PROVE  sent'[v] < Quota
  BY <1>0, <1>3 DEF Wakes, SendsLeft
<1>4. ASSUME NEW w \in Writers, WriteNotify(w) \/ CloseNotify(w) PROVE sent'[v] < Quota
  <2>1. [pc EXCEPT ![w] = "idle"] \in [Threads -> WriterPC \cup ReaderPC]
    BY <1>0 DEF WriterPC
  <2>2. Wakes([pc EXCEPT ![w] = "idle"], pc') /\ sent' = sent
    BY <1>0, <1>4, <2>1, OneWakes, AllWakes
       DEF WriteNotify, CloseNotify, CloseWakes
  <2>3. \/ [pc EXCEPT ![w] = "idle"][v] = pc[v]
        \/ [pc EXCEPT ![w] = "idle"][v] \notin {"enter", "wait", "woken"}
    BY <1>0
  <2> QED
    BY <2>1, <2>2, <2>3, <1>3
<1>5. ASSUME NEW r \in Readers, ReadCall(r) \/ ReadCheck(r) \/ ReadWoken(r)
      PROVE  sent'[v] < Quota
  <2>1. pc'[v] = pc[v] /\ sent' = sent
    BY <1>0, <1>5 DEF ReadCall, ReadCheck, ReadWoken
  <2> QED
    BY <2>1 DEF SendsLeft
<1>6. ASSUME NEW r \in Readers, ReadEnter(r) PROVE sent'[v] < Quota
  <2>1. PICK p \in NotifyOne(pc) : pc' = [p EXCEPT ![r] = AfterWait]
    BY <1>6 DEF ReadEnter, ReadEnterWakes
  <2>2. p \in [Threads -> WriterPC \cup ReaderPC] /\ Wakes(pc, p)
    BY <1>0, OneWakes
  <2>3. pc'[v] = p[v] /\ sent' = sent
    BY <1>0, <1>6, <2>1, <2>2 DEF ReadEnter
  <2> QED
    BY <1>0, <2>2, <2>3 DEF SendsLeft, Wakes
<1>7. ASSUME NEW t \in Threads, SpuriousWake(t) PROVE sent'[v] < Quota
  BY <1>0, <1>7 DEF SpuriousWake, SendsLeft
<1>8. CASE UNCHANGED vars
  BY <1>8 DEF SendsLeft, vars
<1> QED
  BY <1>1, <1>2, <1>4, <1>5, <1>6, <1>7, <1>8 DEF Next, WriterStep, ReaderStep

TypeInv == TypeOK /\ SendsLeft

LEMMA InitTypeInv ==
  ASSUME Init
  PROVE  TypeInv
<1>1. pc \in [Threads -> WriterPC \cup ReaderPC] /\ \A t \in Threads : pc[t] = "idle"
  BY DEF Init, WriterPC
<1>2. SendsLeft
  BY <1>1 DEF SendsLeft, Threads
<1>3. sent \in [Writers -> 0..Quota]
  BY ChannelAssumption DEF Init, ChannelAssumption
<1>4. /\ \A w \in Writers : pc[w] \in WriterPC
      /\ \A r \in Readers : pc[r] \in ReaderPC
  BY <1>1 DEF WriterPC, ReaderPC, Threads
<1>5. /\ queue \in Seq(Elements) /\ pushed \in Seq(Elements)
      /\ taken \in Seq([by : Readers, val : Elements])
      /\ yielded \in [Readers -> Seq(Elements \cup {NoValue})]
  BY DEF Init
<1>6. size \in Int /\ abandoned \in Nat
  BY DEF Init
<1>7. out \in [Readers -> Elements \cup {NoValue}]
  BY DEF Init
<1>8. closed \in BOOLEAN
  BY DEF Init
<1> QED
  BY <1>1, <1>2, <1>3, <1>4, <1>5, <1>6, <1>7, <1>8 DEF TypeInv, TypeOK

LEMMA TypeInvCorrect == Spec => []TypeInv
<1>1. TypeInv /\ [Next]_vars => TypeInv'
  BY TypeStep, SendsStep DEF TypeInv
<1> QED
  BY <1>1, InitTypeInv, PTL DEF Spec

(* The channel's state has its type in every reachable state: the queue     *)
(* holds only elements that writers sent (channel.hpp:145-150).             *)
THEOREM TypeCorrect == Spec => []TypeOK
BY TypeInvCorrect, PTL DEF TypeInv

-----------------------------------------------------------------------------
(* The readers with a claim, and what a step does to their number.          *)
LEMMA ClaimsFinite == IsFiniteSet(Claims) /\ Cardinality(Claims) \in Nat
BY ChannelAssumption, FS_Subset, FS_CardinalityType DEF ChannelAssumption, Claims

LEMMA WakesKeepsClaims ==
  ASSUME TypeOK, NEW p \in [Threads -> WriterPC \cup ReaderPC], Wakes(p, pc'),
         \A r \in Readers : p[r] \in {"wait", "woken"} <=> pc[r] \in {"wait", "woken"}
  PROVE  Claims' = Claims
BY DEF Wakes, Claims, Threads, TypeOK

(* The steps outside the sections of >> under the mutex claim nothing.      *)
QuietStep ==
  \/ \E w \in Writers : WriteCheck(w) \/ CloseStore(w) \/ WriterStep(w)
  \/ \E r \in Readers : ReadCall(r) \/ ReadCheck(r)
  \/ \E t \in Threads : SpuriousWake(t)
  \/ UNCHANGED vars

LEMMA QuietClaims == TypeOK /\ QuietStep => Claims' = Claims /\ abandoned' = abandoned
<1> USE ChannelAssumption
<1> SUFFICES ASSUME TypeOK, QuietStep
             PROVE  Claims' = Claims /\ abandoned' = abandoned
  OBVIOUS
<1>0. /\ pc \in [Threads -> WriterPC \cup ReaderPC] /\ "woken" \in WriterPC \cup ReaderPC
      /\ "idle" \in WriterPC \cup ReaderPC
      /\ \A w \in Writers : w \in Threads /\ w \notin Readers
      /\ \A r \in Readers : r \in Threads
  BY DEF TypeOK, Threads, ChannelAssumption, WriterPC
<1>1. ASSUME NEW w \in Writers, WriteCheck(w) \/ CloseStore(w) \/ WriteLocked(w)
      PROVE  Claims' = Claims /\ abandoned' = abandoned
  <2>1. \A r \in Readers : pc'[r] = pc[r]
    BY <1>0, <1>1 DEF WriteCheck, CloseStore, WriteLocked
  <2> QED
    BY <1>1, <2>1 DEF Claims, WriteCheck, CloseStore, WriteLocked
<1>2. ASSUME NEW w \in Writers, WriteNotify(w) \/ CloseNotify(w)
      PROVE  Claims' = Claims /\ abandoned' = abandoned
  <2>1. [pc EXCEPT ![w] = "idle"] \in [Threads -> WriterPC \cup ReaderPC]
    BY <1>0
  <2>2. Wakes([pc EXCEPT ![w] = "idle"], pc') /\ abandoned' = abandoned
    BY <1>0, <1>2, <2>1, OneWakes, AllWakes
       DEF WriteNotify, CloseNotify, CloseWakes
  <2>3. \A r \in Readers : [pc EXCEPT ![w] = "idle"][r] = pc[r]
    BY <1>0
  <2> QED
    BY <2>1, <2>2, <2>3, WakesKeepsClaims
<1>3. ASSUME NEW r \in Readers, ReadCall(r) \/ ReadCheck(r)
      PROVE  Claims' = Claims /\ abandoned' = abandoned
  <2>1. /\ pc[r] \in {"idle", "call"} /\ abandoned' = abandoned
        /\ \E s \in {"idle", "call", "done", "enter"} : pc' = [pc EXCEPT ![r] = s]
    BY <1>3 DEF ReadCall, ReadCheck
  <2> QED
    BY <1>0, <2>1 DEF Claims
<1>4. ASSUME NEW t \in Threads, SpuriousWake(t)
      PROVE  Claims' = Claims /\ abandoned' = abandoned
  BY <1>0, <1>4 DEF Claims, SpuriousWake
<1>5. CASE UNCHANGED vars
  BY <1>5 DEF vars, Claims
<1> QED
  BY <1>1, <1>2, <1>3, <1>4, <1>5 DEF QuietStep, WriterStep

(* The sections of >> under the mutex: the reader that enters claims        *)
(* nothing yet, the one that wakes does; either takes the oldest element,   *)
(* leaves a closed channel empty-handed or is asleep with a claim.          *)
LEMMA ReadEffect ==
  ASSUME TypeOK, NEW r \in Readers, ReadEnter(r) \/ ReadWoken(r),
         NEW had, had = IF ReadEnter(r) THEN 0 ELSE 1
  PROVE  LET c == Cardinality(Claims)
             d == Cardinality(Claims')
         IN  /\ c - had \in Nat
             /\ size' = size - 1 + had
             /\ \/ /\ queue # <<>> /\ queue' = Tail(queue)
                   /\ Len(queue') = Len(queue) - 1
                   /\ d = c - had /\ abandoned' = abandoned
                \/ /\ queue = <<>> /\ queue' = queue /\ closed
                   /\ d = c - had /\ abandoned' = abandoned + 1
                \/ /\ queue = <<>> /\ queue' = queue /\ ~closed
                   /\ d = c - had + 1 /\ abandoned' = abandoned
<1> DEFINE had0 == Claims \ {r}
<1>0. /\ pc \in [Threads -> WriterPC \cup ReaderPC] /\ "woken" \in WriterPC \cup ReaderPC
      /\ \A x \in Readers : x \in Threads
      /\ size \in Int
  BY DEF TypeOK, Threads, WriterPC
<1>1. IF ReadEnter(r) THEN r \notin Claims ELSE r \in Claims
  BY <1>0 DEF ReadEnter, ReadWoken, Claims
<1>2. Claims' = IF AfterWait = "wait" THEN had0 \cup {r} ELSE had0
  <2>1. PICK p \in [Threads -> WriterPC \cup ReaderPC] :
          Wakes(pc, p) /\ pc' = [p EXCEPT ![r] = AfterWait]
    <3>1. CASE ReadEnter(r)
      BY <1>0, <3>1, OneWakes DEF ReadEnter, ReadEnterWakes
    <3>2. CASE ReadWoken(r)
      BY <1>0, <3>2 DEF ReadWoken, Wakes
    <3> QED
      BY <3>1, <3>2
  <2>2. \A x \in Readers : x # r => pc'[x] = p[x]
    BY <1>0, <2>1
  <2>3. pc'[r] = AfterWait
    BY <1>0, <2>1
  <2>4. \A x \in Readers : p[x] \in {"wait", "woken"} <=> pc[x] \in {"wait", "woken"}
    BY <1>0, <2>1 DEF Wakes
  <2>5. AfterWait \in {"idle", "wait"}
    BY DEF AfterWait
  <2> QED
    BY <2>2, <2>3, <2>4, <2>5 DEF Claims
<1>3. /\ Cardinality(had0) \in Nat
      /\ Cardinality(had0) = Cardinality(Claims) - had
      /\ Cardinality(had0 \cup {r}) = Cardinality(had0) + 1
  <2>1. IsFiniteSet(had0) /\ r \notin had0
    BY ClaimsFinite, FS_Subset
  <2>2. Cardinality(had0) \in Nat /\ Cardinality(had0 \cup {r}) = Cardinality(had0) + 1
    BY <2>1, FS_CardinalityType, FS_AddElement
  <2>3. CASE ReadEnter(r)
    <3>1. had0 = Claims
      BY <1>1, <2>3
    <3>2. had = 0
      BY <2>3
    <3> HIDE DEF had0
    <3> QED
      BY <2>2, <3>1, <3>2
  <2>4. CASE ~ReadEnter(r)
    <3>1. had0 \cup {r} = Claims
      BY <1>1, <2>4
    <3> QED
      BY <2>2, <2>4, <3>1, ClaimsFinite
  <2> QED
    BY <2>2, <2>3, <2>4
<1>4. size' = size - 1 + had
  BY <1>0 DEF ReadEnter, ReadWoken, Claim
<1>5. ReadWait(r)
  BY DEF ReadEnter, ReadWoken
<1> HIDE DEF had0
<1> QED
  BY <1>2, <1>3, <1>4, <1>5, ReadWaitCases

-----------------------------------------------------------------------------
(* Without the counter the room of the channel would not be known: readers  *)
(* that left empty-handed still count, and only a close makes them leave.   *)
Occupancy == Len(queue) <= Cap + Cardinality(Claims) + abandoned
GoneOnlyIfClosed == abandoned > 0 => closed

IInv == TypeInv /\ SizeAccounting /\ Occupancy /\ GoneOnlyIfClosed

LEMMA QuietQueue ==
  ASSUME TypeInv, QuietStep
  PROVE  \/ /\ Room /\ size' = size + 1 /\ closed' = closed
            /\ \E e \in Elements : queue' = Append(queue, e)
         \/ UNCHANGED <<queue, size>> /\ closed' \in {closed, TRUE}
<1>1. ASSUME NEW w \in Writers, WriteLocked(w), Room
      PROVE  /\ size' = size + 1 /\ closed' = closed
             /\ \E e \in Elements : queue' = Append(queue, e)
  <2>1. sent[w] + 1 \in 1..Quota
    BY <1>1, ChannelAssumption
       DEF TypeInv, TypeOK, SendsLeft, WriteLocked, ChannelAssumption
  <2>2. <<w, sent[w] + 1>> \in Elements
    BY <2>1 DEF Elements
  <2> QED
    BY <1>1, <2>2 DEF WriteLocked, Push
<1>2. ASSUME NEW w \in Writers, WriteLocked(w), ~Room
      PROVE  UNCHANGED <<queue, size, closed>>
  BY <1>2 DEF WriteLocked
<1>3. ASSUME NEW w \in Writers, WriteCheck(w) \/ WriteNotify(w) \/ CloseNotify(w)
      PROVE  UNCHANGED <<queue, size, closed>>
  BY <1>3 DEF WriteCheck, WriteNotify, CloseNotify
<1>4. ASSUME NEW w \in Writers, CloseStore(w)
      PROVE  UNCHANGED <<queue, size>> /\ closed' = TRUE
  BY <1>4 DEF CloseStore
<1>5. ASSUME NEW r \in Readers, ReadCall(r) \/ ReadCheck(r)
      PROVE  UNCHANGED <<queue, size, closed>>
  BY <1>5 DEF ReadCall, ReadCheck
<1>6. ASSUME NEW t \in Threads, SpuriousWake(t)
      PROVE  UNCHANGED <<queue, size, closed>>
  BY <1>6 DEF SpuriousWake
<1>7. ASSUME UNCHANGED vars PROVE UNCHANGED <<queue, size, closed>>
  BY <1>7 DEF vars
<1> QED
  BY <1>1, <1>2, <1>3, <1>4, <1>5, <1>6, <1>7 DEF QuietStep, WriterStep

LEMMA StepKinds ==
  ASSUME [Next]_vars
  PROVE  QuietStep \/ \E r \in Readers : ReadEnter(r) \/ ReadWoken(r)
BY DEF Next, QuietStep, ReaderStep

LEMMA AccountingStep == IInv /\ [Next]_vars => IInv'
<1> SUFFICES ASSUME IInv, [Next]_vars PROVE IInv'
  OBVIOUS
<1>0. /\ TypeOK /\ TypeInv /\ queue \in Seq(Elements) /\ Len(queue) \in Nat
      /\ size \in Int /\ abandoned \in Nat /\ Cap \in Nat
      /\ Cardinality(Claims) \in Nat /\ SizeAccounting /\ Occupancy
      /\ GoneOnlyIfClosed
  BY ChannelAssumption, ClaimsFinite DEF IInv, TypeInv, TypeOK, ChannelAssumption
<1>1. TypeInv'
  BY TypeStep, SendsStep DEF IInv, TypeInv
<1>2. ASSUME QuietStep PROVE SizeAccounting' /\ Occupancy' /\ GoneOnlyIfClosed'
  <2>1. Claims' = Claims /\ abandoned' = abandoned
    BY <1>0, <1>2, QuietClaims
  <2>2. CASE /\ Room /\ size' = size + 1 /\ closed' = closed
             /\ \E e \in Elements : queue' = Append(queue, e)
    <3>1. Len(queue') = Len(queue) + 1
      BY <1>0, <2>2, AppendProperties
    <3> QED
      BY <1>0, <2>1, <2>2, <3>1
         DEF Room, SizeAccounting, Occupancy, GoneOnlyIfClosed
  <2>3. CASE UNCHANGED <<queue, size>> /\ closed' \in {closed, TRUE}
    BY <1>0, <2>1, <2>3 DEF SizeAccounting, Occupancy, GoneOnlyIfClosed
  <2> QED
    BY <1>0, <1>2, <2>2, <2>3, QuietQueue
<1>3. ASSUME NEW r \in Readers, ReadEnter(r) \/ ReadWoken(r)
      PROVE  SizeAccounting' /\ Occupancy' /\ GoneOnlyIfClosed'
  <2> DEFINE had == IF ReadEnter(r) THEN 0 ELSE 1
             c == Cardinality(Claims)
             d == Cardinality(Claims')
  <2>1. had \in {0, 1} /\ had = IF ReadEnter(r) THEN 0 ELSE 1
    OBVIOUS
  <2>2. /\ c - had \in Nat
        /\ size' = size - 1 + had
        /\ \/ /\ queue # <<>> /\ queue' = Tail(queue)
              /\ Len(queue') = Len(queue) - 1
              /\ d = c - had /\ abandoned' = abandoned
           \/ /\ queue = <<>> /\ queue' = queue /\ closed
              /\ d = c - had /\ abandoned' = abandoned + 1
           \/ /\ queue = <<>> /\ queue' = queue /\ ~closed
              /\ d = c - had + 1 /\ abandoned' = abandoned
    BY <1>0, <1>3, <2>1, ReadEffect
  <2>3. closed' = closed /\ Cardinality(Claims)' = d
    BY <1>3 DEF ReadEnter, ReadWoken
  <2>4. /\ SizeAccounting <=> size = Len(queue) - c - abandoned
        /\ Occupancy <=> Len(queue) <= Cap + c + abandoned
        /\ SizeAccounting' <=> size' = Len(queue') - d - abandoned'
        /\ Occupancy' <=> Len(queue') <= Cap + d + abandoned'
    BY <2>3 DEF SizeAccounting, Occupancy
  <2>5. c \in Nat /\ Len(<<>>) = 0
    BY <1>0
  <2> HIDE DEF had, c, d
  <2>6. CASE queue # <<>> /\ Len(queue') = Len(queue) - 1 /\ d = c - had /\ abandoned' = abandoned
    BY <1>0, <2>1, <2>2, <2>3, <2>4, <2>5, <2>6 DEF GoneOnlyIfClosed
  <2>7. CASE queue' = queue /\ closed /\ d = c - had /\ abandoned' = abandoned + 1
    BY <1>0, <2>1, <2>2, <2>3, <2>4, <2>5, <2>7 DEF GoneOnlyIfClosed
  <2>8. CASE queue = <<>> /\ queue' = queue /\ ~closed /\ d = c - had + 1 /\ abandoned' = abandoned
    BY <1>0, <2>1, <2>2, <2>3, <2>4, <2>5, <2>8 DEF GoneOnlyIfClosed
  <2> QED
    BY <2>2, <2>6, <2>7, <2>8
<1> QED
  BY <1>1, <1>2, <1>3, StepKinds DEF IInv

LEMMA AccountingInv == Spec => []IInv
<1>1. Init => IInv
  <2> SUFFICES ASSUME Init PROVE IInv
    OBVIOUS
  <2>1. TypeInv
    BY InitTypeInv
  <2>2. Claims = {}
    BY DEF Init, Claims, Threads
  <2>3. Cardinality(Claims) = 0
    BY <2>2, FS_EmptySet
  <2> QED
    BY <2>1, <2>3, ChannelAssumption
       DEF Init, IInv, SizeAccounting, Occupancy, GoneOnlyIfClosed, ChannelAssumption
<1> QED
  BY <1>1, AccountingStep, PTL DEF Spec

(* size_ is the queue less the readers waiting inside >> less those that    *)
(* left empty-handed: no step of any thread breaks the account of lines     *)
(* 177 and 188.                                                             *)
THEOREM SizeAccounted == Spec => []SizeAccounting
BY AccountingInv, PTL DEF IInv

(* While it is open the channel never holds more than cap_ elements beyond  *)
(* those its waiting readers will take (line 156).                          *)
THEOREM Bounded == Spec => []CapacityBound
<1>1. IInv => CapacityBound
  <2> SUFFICES ASSUME IInv, ~closed PROVE Len(queue) <= Cap + Cardinality(Claims)
    BY DEF CapacityBound
  <2>1. abandoned = 0 /\ Cap \in Nat /\ Cardinality(Claims) \in Nat
    BY ChannelAssumption, ClaimsFinite
       DEF IInv, GoneOnlyIfClosed, TypeInv, TypeOK, ChannelAssumption
  <2> QED
    BY <2>1 DEF IInv, Occupancy
<1> QED
  BY <1>1, AccountingInv, PTL

-----------------------------------------------------------------------------
(* Sequences: pushing extends the whole, taking moves the boundary.         *)
LEMMA ConcatAppend ==
  ASSUME NEW S, NEW s \in Seq(S), NEW t \in Seq(S), NEW e \in S
  PROVE  s \o Append(t, e) = Append(s \o t, e)
OBVIOUS

LEMMA ConcatShift ==
  ASSUME NEW S, NEW s \in Seq(S), NEW t \in Seq(S), t # <<>>
  PROVE  Append(s, Head(t)) \o Tail(t) = s \o t
<1>1. Len(t) \in Nat \ {0}
  BY EmptySeq
<1> QED
  BY <1>1

LEMMA TakenValsAppend ==
  ASSUME taken \in Seq([by : Readers, val : Elements]),
         NEW r \in Readers, NEW e \in Elements,
         taken' = Append(taken, [by |-> r, val |-> e])
  PROVE  TakenVals' = Append(TakenVals, e)
<1> DEFINE R == [by : Readers, val : Elements]
           x == [by |-> r, val |-> e]
           n == Len(taken)
<1>1. x \in R /\ taken \in Seq(R) /\ n \in Nat /\ DOMAIN taken = 1..n
  BY LenProperties
<1>2. \A i \in 1..n : taken[i] \in R
  BY <1>1, ElementOfSeq
<1>3. /\ taken' \in Seq(R) /\ Len(taken') = n + 1
      /\ \A i \in 1..n : taken'[i] = taken[i]
      /\ taken'[n + 1] = x
  BY <1>1, AppendProperties
<1>4. DOMAIN taken' = 1..(n + 1)
  BY <1>3, LenProperties
<1>5. TakenVals \in [1..n -> Elements] /\ TakenVals \in Seq(Elements) /\ Len(TakenVals) = n
  <2>1. TakenVals = [i \in 1..n |-> taken[i].val]
    BY <1>1 DEF TakenVals
  <2>2. TakenVals \in [1..n -> Elements]
    BY <1>2, <2>1
  <2> HIDE DEF n
  <2>3. TakenVals \in Seq(Elements)
    BY <1>1, <2>2, SeqDef
  <2> QED
    BY <1>1, <2>2, <2>3, LenProperties
<1>6. TakenVals' \in [1..(n + 1) -> Elements] /\ TakenVals' \in Seq(Elements)
      /\ Len(TakenVals') = n + 1
  <2>1. TakenVals' = [i \in 1..(n + 1) |-> taken'[i].val]
    BY <1>4 DEF TakenVals
  <2>2. \A i \in 1..(n + 1) : taken'[i] \in R
    BY <1>3, <1>4, ElementOfSeq
  <2>3. TakenVals' \in [1..(n + 1) -> Elements]
    BY <2>1, <2>2
  <2> HIDE DEF n
  <2>4. n + 1 \in Nat
    BY <1>1
  <2>5. TakenVals' \in Seq(Elements)
    BY <2>3, <2>4, SeqDef
  <2> QED
    BY <2>3, <2>4, <2>5, LenProperties
<1>7. /\ Append(TakenVals, e) \in Seq(Elements) /\ Len(Append(TakenVals, e)) = n + 1
      /\ \A i \in 1..n : Append(TakenVals, e)[i] = TakenVals[i]
      /\ Append(TakenVals, e)[n + 1] = e
  BY <1>5, AppendProperties
<1>8. \A i \in 1..(n + 1) : TakenVals'[i] = Append(TakenVals, e)[i]
  <2>1. \A i \in 1..(n + 1) : TakenVals'[i] = taken'[i].val
    BY <1>4 DEF TakenVals
  <2>2. \A i \in 1..n : TakenVals[i] = taken[i].val
    BY <1>1 DEF TakenVals
  <2> HIDE DEF n
  <2> QED
    BY <1>1, <1>3, <1>7, <2>1, <2>2
<1> HIDE DEF n
<1> QED
  BY <1>6, <1>7, <1>8, SeqEqual

LEMMA TakenValsType == TypeOK => TakenVals \in Seq(Elements)
<1> SUFFICES ASSUME TypeOK PROVE TakenVals \in Seq(Elements)
  OBVIOUS
<1> DEFINE n == Len(taken)
<1>1. taken \in Seq([by : Readers, val : Elements])
  BY DEF TypeOK
<1>2. n \in Nat /\ DOMAIN taken = 1..n
  BY <1>1, LenProperties
<1>3. \A i \in 1..n : taken[i] \in [by : Readers, val : Elements]
  BY <1>1, ElementOfSeq
<1>4. TakenVals \in [1..n -> Elements]
  BY <1>2, <1>3 DEF TakenVals
<1> HIDE DEF n
<1> QED
  BY <1>2, <1>4, SeqDef

(* The three effects a step can have on the element history.                *)
LEMMA HistoryStep ==
  ASSUME TypeInv, [Next]_vars
  PROVE  \/ /\ taken' = taken
            /\ \E e \in Elements : queue' = Append(queue, e) /\ pushed' = Append(pushed, e)
         \/ /\ queue # <<>> /\ queue' = Tail(queue) /\ pushed' = pushed
            /\ Head(queue) \in Elements
            /\ \E r \in Readers : taken' = Append(taken, [by |-> r, val |-> Head(queue)])
         \/ UNCHANGED <<queue, pushed, taken>>
<1>0. TypeOK
  BY DEF TypeInv
<1>1. ASSUME NEW w \in Writers, WriteLocked(w), Room
      PROVE  /\ taken' = taken
             /\ \E e \in Elements : queue' = Append(queue, e) /\ pushed' = Append(pushed, e)
  <2>1. sent[w] + 1 \in 1..Quota
    BY <1>1, ChannelAssumption
       DEF TypeInv, TypeOK, SendsLeft, WriteLocked, ChannelAssumption
  <2>2. <<w, sent[w] + 1>> \in Elements
    BY <2>1 DEF Elements
  <2> QED
    BY <1>1, <2>2 DEF WriteLocked, Push
<1>2. ASSUME NEW w \in Writers, WriteLocked(w), ~Room
      PROVE  UNCHANGED <<queue, pushed, taken>>
  BY <1>2 DEF WriteLocked
<1>3. ASSUME NEW w \in Writers, WriteCheck(w) \/ WriteNotify(w) \/ CloseNotify(w) \/ CloseStore(w)
      PROVE  UNCHANGED <<queue, pushed, taken>>
  BY <1>3 DEF WriteCheck, WriteNotify, CloseNotify, CloseStore
<1>4. ASSUME NEW r \in Readers, ReadCall(r) \/ ReadCheck(r)
      PROVE  UNCHANGED <<queue, pushed, taken>>
  BY <1>4 DEF ReadCall, ReadCheck
<1>5. ASSUME NEW r \in Readers, ReadEnter(r) \/ ReadWoken(r)
      PROVE  \/ /\ queue # <<>> /\ queue' = Tail(queue) /\ pushed' = pushed
                /\ Head(queue) \in Elements
                /\ taken' = Append(taken, [by |-> r, val |-> Head(queue)])
             \/ UNCHANGED <<queue, pushed, taken>>
  <2>1. ReadWait(r) /\ pushed' = pushed
    BY <1>5 DEF ReadEnter, ReadWoken
  <2> QED
    BY <1>0, <2>1, ReadWaitCases
<1>6. ASSUME NEW t \in Threads, SpuriousWake(t)
      PROVE  UNCHANGED <<queue, pushed, taken>>
  BY <1>6 DEF SpuriousWake
<1>7. ASSUME UNCHANGED vars PROVE UNCHANGED <<queue, pushed, taken>>
  BY <1>7 DEF vars
<1> QED
  BY <1>1, <1>2, <1>3, <1>4, <1>5, <1>6, <1>7 DEF Next, WriterStep, ReaderStep

(* Nothing pushed is lost, duplicated or reordered, however the threads     *)
(* interleave and whenever the channel is closed (lines 176, 192-193).      *)
THEOREM Conserved == Spec => []FifoConservation
<1>1. Init => FifoConservation
  BY DEF Init, FifoConservation, TakenVals
<1>2. TypeInv /\ FifoConservation /\ [Next]_vars => FifoConservation'
  <2> SUFFICES ASSUME TypeInv, FifoConservation, [Next]_vars PROVE FifoConservation'
    OBVIOUS
  <2>0. /\ queue \in Seq(Elements) /\ TakenVals \in Seq(Elements)
        /\ pushed = TakenVals \o queue /\ taken \in Seq([by : Readers, val : Elements])
    BY TakenValsType DEF TypeInv, TypeOK, FifoConservation
  <2>1. CASE /\ taken' = taken
             /\ \E e \in Elements : queue' = Append(queue, e) /\ pushed' = Append(pushed, e)
    <3>1. TakenVals' = TakenVals
      BY <2>1 DEF TakenVals
    <3>2. PICK e \in Elements : queue' = Append(queue, e) /\ pushed' = Append(pushed, e)
      BY <2>1
    <3>3. TakenVals \o queue' = Append(TakenVals \o queue, e)
      BY <2>0, <3>2, ConcatAppend
    <3> QED
      BY <2>0, <3>1, <3>2, <3>3 DEF FifoConservation
  <2>2. CASE /\ queue # <<>> /\ queue' = Tail(queue) /\ pushed' = pushed
             /\ Head(queue) \in Elements
             /\ \E r \in Readers : taken' = Append(taken, [by |-> r, val |-> Head(queue)])
    <3>1. TakenVals' = Append(TakenVals, Head(queue))
      BY <2>0, <2>2, TakenValsAppend
    <3>2. Append(TakenVals, Head(queue)) \o Tail(queue) = TakenVals \o queue
      BY <2>0, <2>2, ConcatShift
    <3> QED
      BY <2>0, <2>2, <3>1, <3>2 DEF FifoConservation
  <2>3. CASE UNCHANGED <<queue, pushed, taken>>
    BY <2>3 DEF FifoConservation, TakenVals
  <2> QED
    BY <2>1, <2>2, <2>3, HistoryStep
<1> QED
  BY <1>1, <1>2, TypeInvCorrect, PTL DEF Spec

-----------------------------------------------------------------------------
(* A range-for body is given one stale value at most: once closed() is true *)
(* the loop ends at its next test, so a reader that has been given one is   *)
(* between two calls of >> and makes no other.                              *)
Given(r) ==
  LET real == Cardinality(TakenBy(r)) IN
  \/ Len(yielded[r]) = real
  \/ Len(yielded[r]) = real + 1 /\ closed /\ pc[r] \in {"idle", "done"}
GivenInv == \A r \in RangeReaders : Given(r)

(* A pop is one more for the reader that pops, and for no other.            *)
LEMMA TakenByAppend ==
  ASSUME TypeOK, NEW v \in Elements, NEW q \in Readers, NEW r \in Readers,
         taken' = Append(taken, [by |-> q, val |-> v])
  PROVE  /\ Cardinality(TakenBy(r)) \in Nat
         /\ Cardinality(TakenBy(r))' = Cardinality(TakenBy(r)) + IF q = r THEN 1 ELSE 0
<1> DEFINE n == Len(taken)  e == [by |-> q, val |-> v]
<1>1. /\ taken \in Seq([by : Readers, val : Elements]) /\ n \in Nat /\ DOMAIN taken = 1..n
      /\ e \in [by : Readers, val : Elements]
  BY LenProperties DEF TypeOK
<1>2. /\ DOMAIN taken' = 1..(n + 1) /\ taken'[n + 1] = e
      /\ \A i \in 1..n : taken'[i] = taken[i]
  BY <1>1, AppendProperties, LenProperties
<1>3. IsFiniteSet(TakenBy(r)) /\ n + 1 \notin TakenBy(r)
  <2>1. TakenBy(r) \subseteq 1..n /\ IsFiniteSet(1..n) /\ n + 1 \notin 1..n
    BY <1>1, FS_Interval DEF TakenBy
  <2> QED
    BY <2>1, FS_Subset
<1>4. \A i \in 1..(n + 1) : i \in 1..n \/ i = n + 1
  BY <1>1
<1>5. 1..n \subseteq 1..(n + 1) /\ n + 1 \in 1..(n + 1) /\ e.by = q
  BY <1>1
<1> HIDE DEF e, n
<1>6. CASE q = r
  <2>1. TakenBy(r)' = TakenBy(r) \cup {n + 1}
    BY <1>1, <1>2, <1>4, <1>5, <1>6 DEF TakenBy
  <2> QED
    BY <1>3, <1>6, <2>1, FS_AddElement, FS_CardinalityType
<1>7. CASE q # r
  <2>1. TakenBy(r)' = TakenBy(r)
    BY <1>1, <1>2, <1>4, <1>5, <1>7 DEF TakenBy
  <2>2. Cardinality(TakenBy(r)) \in Nat
    BY <1>3, FS_CardinalityType
  <2> QED
    BY <1>7, <2>1, <2>2
<1> QED
  BY <1>6, <1>7

LEMMA TakenByIsNat ==
  ASSUME TypeOK, NEW r \in Readers
  PROVE  Cardinality(TakenBy(r)) \in Nat
<1>1. Len(taken) \in Nat /\ DOMAIN taken = 1..Len(taken)
  BY LenProperties DEF TypeOK
<1>2. IsFiniteSet(1..Len(taken)) /\ TakenBy(r) \subseteq 1..Len(taken)
  BY <1>1, FS_Interval DEF TakenBy
<1> QED
  BY <1>2, FS_Subset, FS_CardinalityType

(* What the body is given by the call that ends the wait.                   *)
LEMMA YieldGiven ==
  ASSUME TypeOK, NEW q \in Readers, NEW v \in Elements \cup {NoValue}, Yield(q, v),
         NEW r \in RangeReaders
  PROVE  Len(yielded'[r]) = Len(yielded[r]) + (IF q = r THEN 1 ELSE 0)
<1>1. r \in Readers /\ yielded \in [Readers -> Seq(Elements \cup {NoValue})]
  BY ChannelAssumption DEF TypeOK, ChannelAssumption
<1>2. Len(yielded[r]) \in Nat /\ Len(Append(yielded[r], v)) = Len(yielded[r]) + 1
  BY <1>1, AppendProperties, LenProperties
<1> QED
  BY <1>1, <1>2 DEF Yield

(* A step of another thread, and one that gives and takes nothing.          *)
LEMMA GivenKept ==
  ASSUME NEW r \in RangeReaders, Given(r), UNCHANGED <<taken, yielded>>, closed => closed',
         pc[r] \in {"idle", "done"} => pc'[r] \in {"idle", "done"} \/ ~closed
  PROVE  Given(r)'
BY DEF Given, TakenBy

(* The end of >>.                                                           *)
LEMMA ReadGiven ==
  ASSUME TypeOK, NEW q \in Readers, ReadWait(q), closed' = closed,
         NEW r \in RangeReaders, Given(r), pc[q] \notin {"idle", "done"},
         q = r => pc'[r] = AfterWait,
         q # r /\ pc[r] \in {"idle", "done"} => pc'[r] = pc[r]
  PROVE  Given(r)'
<1>1. r \in Readers /\ Len(yielded[r]) \in Nat
  BY LenProperties, ChannelAssumption DEF TypeOK, ChannelAssumption
<1>2. Cardinality(TakenBy(r)) \in Nat
  BY <1>1, TakenByIsNat
<1>3. CASE /\ Head(queue) \in Elements /\ Yield(q, Head(queue))
           /\ taken' = Append(taken, [by |-> q, val |-> Head(queue)])
  <2>1. Cardinality(TakenBy(r))' = Cardinality(TakenBy(r)) + IF q = r THEN 1 ELSE 0
    BY <1>1, <1>3, TakenByAppend
  <2>2. Len(yielded'[r]) = Len(yielded[r]) + IF q = r THEN 1 ELSE 0
    BY <1>3, YieldGiven
  <2>3. CASE q = r
    <3>1. Len(yielded[r]) = Cardinality(TakenBy(r))
      BY <2>3 DEF Given
    <3>2. Len(yielded'[r]) = Cardinality(TakenBy(r))'
      BY <2>1, <2>2, <2>3, <3>1
    <3> QED
      BY <3>2 DEF Given
  <2>4. CASE q # r
    <3>1. Len(yielded'[r]) = Len(yielded[r]) /\ Cardinality(TakenBy(r))' = Cardinality(TakenBy(r))
      BY <1>1, <1>2, <2>1, <2>2, <2>4
    <3> QED
      BY <2>4, <3>1 DEF Given
  <2> QED
    BY <2>3, <2>4
<1>4. CASE /\ closed /\ AfterWait = "idle" /\ Yield(q, out[q]) /\ UNCHANGED taken
  <2>1. out[q] \in Elements \cup {NoValue}
    BY DEF TypeOK
  <2>2. Len(yielded'[r]) = Len(yielded[r]) + IF q = r THEN 1 ELSE 0
    BY <1>4, <2>1, YieldGiven
  <2>3. Cardinality(TakenBy(r))' = Cardinality(TakenBy(r))
    BY <1>4 DEF TakenBy
  <2>4. CASE q = r
    <3>1. Len(yielded[r]) = Cardinality(TakenBy(r))
      BY <2>4 DEF Given
    <3>2. Len(yielded'[r]) = Cardinality(TakenBy(r))' + 1 /\ closed' /\ pc'[r] = "idle"
      BY <1>4, <2>2, <2>3, <2>4, <3>1
    <3> QED
      BY <3>2 DEF Given
  <2>5. CASE q # r
    <3>1. Len(yielded'[r]) = Len(yielded[r])
      BY <1>1, <2>2, <2>5
    <3> QED
      BY <2>3, <2>5, <3>1 DEF Given
  <2> QED
    BY <2>4, <2>5
<1>5. CASE UNCHANGED <<taken, yielded>>
  BY <1>5, GivenKept
<1> QED
  BY <1>3, <1>4, <1>5, ReadWaitCases

LEMMA GivenStep == TypeOK /\ GivenInv /\ [Next]_vars => GivenInv'
<1> USE ChannelAssumption
<1> SUFFICES ASSUME TypeOK, GivenInv, [Next]_vars, NEW r \in RangeReaders PROVE Given(r)'
  BY DEF GivenInv
<1>0. /\ pc \in [Threads -> WriterPC \cup ReaderPC] /\ r \in Readers /\ r \in Threads
      /\ r \notin Writers /\ Given(r) /\ "idle" \in WriterPC
  BY DEF TypeOK, ChannelAssumption, Threads, GivenInv, WriterPC
<1>1. ASSUME NEW w \in Writers, WriteCheck(w) \/ CloseStore(w) \/ WriteLocked(w)
      PROVE  Given(r)'
  <2>1. pc'[r] = pc[r] /\ UNCHANGED <<taken, yielded>> /\ (closed => closed')
    BY <1>0, <1>1 DEF WriteCheck, CloseStore, WriteLocked
  <2> QED
    BY <1>0, <2>1, GivenKept
<1>2. ASSUME NEW w \in Writers, WriteNotify(w) \/ CloseNotify(w) PROVE Given(r)'
  <2> DEFINE p == [pc EXCEPT ![w] = "idle"]
  <2>1. p \in [Threads -> WriterPC \cup ReaderPC] /\ p[r] = pc[r]
    BY <1>0 DEF WriterPC
  <2>2. Wakes(p, pc') /\ UNCHANGED <<taken, yielded, closed>>
    BY <1>2, <2>1, OneWakes, AllWakes DEF WriteNotify, CloseNotify, CloseWakes
  <2> HIDE DEF p
  <2>3. pc[r] \in {"idle", "done"} => pc'[r] = pc[r]
    BY <1>0, <2>1, <2>2 DEF Wakes
  <2> QED
    BY <1>0, <2>2, <2>3, GivenKept
<1>3. ASSUME NEW q \in Readers, ReadCall(q) PROVE Given(r)'
  <2>1. pc' = [pc EXCEPT ![q] = IF LoopGoesOn(q) THEN "call" ELSE "done"]
    BY <1>3 DEF ReadCall
  <2>2. pc[r] \in {"idle", "done"} => pc'[r] \in {"idle", "done"} \/ ~closed
    BY <1>0, <2>1 DEF LoopGoesOn
  <2> QED
    BY <1>0, <1>3, <2>2, GivenKept DEF ReadCall
<1>4. ASSUME NEW q \in Readers, ReadCheck(q) PROVE Given(r)'
  <2>1. CASE /\ closed /\ pc' = [pc EXCEPT ![q] = "idle"] /\ Yield(q, out[q])
    <3>1. out[q] \in Elements \cup {NoValue} /\ pc[q] = "call" /\ UNCHANGED <<taken, closed>>
      BY <1>4 DEF TypeOK, ReadCheck
    <3>2. Len(yielded'[r]) = Len(yielded[r]) + IF q = r THEN 1 ELSE 0
      BY <2>1, <3>1, YieldGiven
    <3>3. Cardinality(TakenBy(r))' = Cardinality(TakenBy(r)) /\ Cardinality(TakenBy(r)) \in Nat
      BY <1>0, <3>1, TakenByIsNat DEF TakenBy
    <3>4. Len(yielded[r]) \in Nat
      BY <1>0, LenProperties DEF TypeOK
    <3>5. CASE q = r
      <4>1. Len(yielded[r]) = Cardinality(TakenBy(r))
        BY <1>0, <3>1, <3>5 DEF Given
      <4>2. Len(yielded'[r]) = Cardinality(TakenBy(r))' + 1 /\ closed' /\ pc'[r] = "idle"
        BY <1>0, <2>1, <3>1, <3>2, <3>3, <3>5, <4>1
      <4> QED
        BY <4>2 DEF Given
    <3>6. CASE q # r
      <4>1. Len(yielded'[r]) = Len(yielded[r]) /\ pc'[r] = pc[r]
        BY <1>0, <2>1, <3>2, <3>4, <3>6
      <4> QED
        BY <1>0, <3>1, <3>3, <4>1 DEF Given
    <3> QED
      BY <3>5, <3>6
  <2>2. CASE pc' = [pc EXCEPT ![q] = "enter"] /\ UNCHANGED yielded
    <3>1. pc[q] = "call" /\ UNCHANGED <<taken, closed>>
      BY <1>4 DEF ReadCheck
    <3>2. pc[r] \in {"idle", "done"} => pc'[r] = pc[r]
      BY <1>0, <2>2, <3>1
    <3> QED
      BY <1>0, <2>2, <3>1, <3>2, GivenKept
  <2> QED
    BY <1>4, <2>1, <2>2 DEF ReadCheck
<1>5. ASSUME NEW q \in Readers, ReadEnter(q) PROVE Given(r)'
  <2>1. PICK p \in NotifyOne(pc) : pc' = [p EXCEPT ![q] = AfterWait]
    BY <1>5 DEF ReadEnter, ReadEnterWakes
  <2>2. p \in [Threads -> WriterPC \cup ReaderPC] /\ Wakes(pc, p)
    BY <1>0, <2>1, OneWakes
  <2>3. q \in Threads /\ pc[q] = "enter" /\ ReadWait(q) /\ closed' = closed
    BY <1>5 DEF ReadEnter, Threads
  <2>4. /\ q = r => pc'[r] = AfterWait
        /\ q # r /\ pc[r] \in {"idle", "done"} => pc'[r] = pc[r]
    BY <1>0, <2>1, <2>2, <2>3 DEF Wakes
  <2> QED
    BY <1>0, <2>3, <2>4, ReadGiven
<1>6. ASSUME NEW q \in Readers, ReadWoken(q) PROVE Given(r)'
  <2>1. /\ q \in Threads /\ pc[q] = "woken" /\ ReadWait(q) /\ closed' = closed
        /\ pc' = [pc EXCEPT ![q] = AfterWait]
    BY <1>6 DEF ReadWoken, Threads
  <2>2. q # r => pc'[r] = pc[r]
    BY <1>0, <2>1
  <2>3. q = r => pc'[r] = AfterWait
    BY <1>0, <2>1
  <2> QED
    BY <1>0, <2>1, <2>2, <2>3, ReadGiven
<1>7. ASSUME NEW t \in Threads, SpuriousWake(t) PROVE Given(r)'
  <2>1. (pc[r] \in {"idle", "done"} => pc'[r] = pc[r]) /\ UNCHANGED <<taken, yielded, closed>>
    BY <1>0, <1>7 DEF SpuriousWake
  <2> QED
    BY <1>0, <2>1, GivenKept
<1>8. CASE UNCHANGED vars
  BY <1>0, <1>8, GivenKept DEF vars
<1> QED
  BY <1>1, <1>2, <1>3, <1>4, <1>5, <1>6, <1>7, <1>8 DEF Next, WriterStep, ReaderStep

(* The body of a range-for loop sees what its reads popped and one stale    *)
(* value more at most, for any number of readers (channel.hpp:39-47).       *)
THEOREM OneStaleYield == Spec => []AtMostOneStaleYield
<1>1. Init => GivenInv
  <2> SUFFICES ASSUME Init, NEW r \in RangeReaders PROVE Given(r)
    BY DEF GivenInv
  <2>1. r \in Readers /\ taken = <<>> /\ yielded[r] = <<>>
    BY ChannelAssumption DEF Init, ChannelAssumption
  <2>2. TakenBy(r) = {} /\ Len(yielded[r]) = 0
    BY <2>1 DEF TakenBy
  <2> QED
    BY <2>2, FS_EmptySet DEF Given
<1>2. TypeInv /\ GivenInv /\ [Next]_vars => GivenInv'
  BY GivenStep DEF TypeInv
<1>3. GivenInv => AtMostOneStaleYield
  BY DEF GivenInv, Given, AtMostOneStaleYield
<1> QED
  BY <1>1, <1>2, <1>3, TypeInvCorrect, PTL DEF Spec

-----------------------------------------------------------------------------
(* Under the mapping of Channel every step of a thread is a step of the     *)
(* bounded FIFO or changes nothing it sees: mutex, condition variable and   *)
(* size_ together implement it (channel.hpp:166-204).                       *)
THEOREM Refinement == Spec => ImplementsFifo
<1>1. Init => Fifo!FifoInit
  <2> SUFFICES ASSUME Init PROVE Fifo!FifoInit
    OBVIOUS
  <2>1. Claims = {}
    BY DEF Init, Claims, Threads
  <2>2. Cardinality(Claims) = 0
    BY <2>1, FS_EmptySet
  <2> QED
    BY <2>2 DEF Init, Fifo!FifoInit
<1>2. IInv /\ [Next]_vars => [Fifo!FifoNext]_(Fifo!afvars)
  <2> SUFFICES ASSUME IInv, [Next]_vars PROVE [Fifo!FifoNext]_(Fifo!afvars)
    OBVIOUS
  <2>0. /\ TypeOK /\ TypeInv /\ queue \in Seq(Elements) /\ Len(queue) \in Nat
        /\ size \in Int /\ abandoned \in Nat /\ Cap \in Nat
        /\ Cardinality(Claims) \in Nat /\ SizeAccounting
    BY ChannelAssumption, ClaimsFinite DEF IInv, TypeInv, TypeOK, ChannelAssumption
  <2>1. ASSUME QuietStep PROVE [Fifo!FifoNext]_(Fifo!afvars)
    <3>1. Claims' = Claims /\ abandoned' = abandoned
      BY <2>0, <2>1, QuietClaims
    <3>2. Cardinality(Claims)' = Cardinality(Claims)
      BY <3>1
    <3>3. CASE /\ Room /\ size' = size + 1 /\ closed' = closed
               /\ \E e \in Elements : queue' = Append(queue, e)
      <4>1. Len(queue) < Cap + Cardinality(Claims) + abandoned
        BY <2>0, <3>3 DEF Room, SizeAccounting
      <4>2. Fifo!Put
        BY <3>1, <3>2, <3>3, <4>1 DEF Fifo!Put
      <4> QED
        BY <4>2 DEF Fifo!FifoNext
    <3>4. CASE UNCHANGED <<queue, size>> /\ closed' = closed
      BY <3>1, <3>2, <3>4 DEF Fifo!afvars
    <3>5. CASE UNCHANGED <<queue, size>> /\ closed' = TRUE
      <4>1. Fifo!Shut
        BY <3>1, <3>2, <3>5 DEF Fifo!Shut
      <4> QED
        BY <4>1 DEF Fifo!FifoNext
    <3> QED
      BY <2>0, <2>1, <3>3, <3>4, <3>5, QuietQueue
  <2>2. ASSUME NEW r \in Readers, ReadEnter(r) \/ ReadWoken(r)
        PROVE  [Fifo!FifoNext]_(Fifo!afvars)
    <3> DEFINE had == IF ReadEnter(r) THEN 0 ELSE 1
               c == Cardinality(Claims)
               d == Cardinality(Claims')
    <3>1. had \in {0, 1} /\ had = IF ReadEnter(r) THEN 0 ELSE 1
      OBVIOUS
    <3>2. /\ c - had \in Nat
          /\ \/ /\ queue # <<>> /\ queue' = Tail(queue)
                /\ d = c - had /\ abandoned' = abandoned
             \/ /\ queue = <<>> /\ queue' = queue /\ closed
                /\ d = c - had /\ abandoned' = abandoned + 1
             \/ /\ queue = <<>> /\ queue' = queue /\ ~closed
                /\ d = c - had + 1 /\ abandoned' = abandoned
      BY <2>0, <2>2, <3>1, ReadEffect
    <3>3. closed' = closed /\ Cardinality(Claims)' = d /\ c = Cardinality(Claims)
      BY <2>2 DEF ReadEnter, ReadWoken
    <3> HIDE DEF had, c, d
    <3>4. CASE queue # <<>> /\ queue' = Tail(queue) /\ d = c - had /\ abandoned' = abandoned
      <4>1. CASE had = 0
        BY <2>0, <3>3, <3>4, <4>1 DEF Fifo!FifoNext, Fifo!TakeNow
      <4>2. CASE had = 1
        BY <2>0, <3>2, <3>3, <3>4, <4>2 DEF Fifo!FifoNext, Fifo!TakeAfterWait
      <4> QED
        BY <3>1, <4>1, <4>2
    <3>5. CASE /\ queue = <<>> /\ queue' = queue /\ closed
               /\ d = c - had /\ abandoned' = abandoned + 1
      BY <2>0, <3>1, <3>2, <3>3, <3>5 DEF Fifo!FifoNext, Fifo!LeaveEmptyHanded
    <3>6. CASE /\ queue = <<>> /\ queue' = queue /\ ~closed
               /\ d = c - had + 1 /\ abandoned' = abandoned
      <4>1. CASE had = 0
        BY <2>0, <3>3, <3>6, <4>1 DEF Fifo!FifoNext, Fifo!StartWaiting
      <4>2. CASE had = 1
        BY <2>0, <3>3, <3>6, <4>2 DEF Fifo!FifoNext, Fifo!afvars
      <4> QED
        BY <3>1, <4>1, <4>2
    <3> QED
      BY <3>2, <3>4, <3>5, <3>6
  <2> QED
    BY <2>1, <2>2, StepKinds
<1> QED
  BY <1>1, <1>2, AccountingInv, PTL DEF Spec, ImplementsFifo, Fifo!FifoSpec
-----------------------------------------------------------------------------
(* Nobody left asleep.  Readers and writers share one condition variable,   *)
(* so that a notification meant for one kind may reach the other and be     *)
(* lost (lines 153, 179, 189, 203).  With at most cap_ + 1 writers it       *)
(* cannot: then threads of both kinds never sleep at the same time while    *)
(* the channel is open.  The bound is exact for readers: with one writer    *)
(* more, run channel_lost_wakeup leaves a reader asleep beside an element.  *)
FewWriters == IsFiniteSet(Writers) /\ Cardinality(Writers) <= Cap + 1

NW(a, p) == Count(Writers, {a}, p)
NR(a, p) == Count(Readers, {a}, p)

(* With w writers asleep, ww awake, n about to notify and k about to wake    *)
(* everybody, r readers asleep and rw awake, len elements and size_ z: an    *)
(* element that a sleeping reader could take has an awake reader or a        *)
(* notification under way; a free place that a sleeping writer could fill    *)
(* has an awake writer; and a close that found readers asleep has yet to     *)
(* wake them.                                                                *)
Covered(c, len, z, w, ww, n, k, r, rw) ==
  /\ ~c => w = 0 \/ r = 0
  /\ ~c /\ r > 0 => len <= rw + n
  /\ c /\ r > 0 => k > 0
  /\ w > 0 /\ k = 0 => Cap - z <= ww
  /\ k > 0 => c

WakeInv ==
  Covered(closed, Len(queue), size, NW("wait", pc), NW("woken", pc),
          NW("notify", pc), NW("closing", pc), NR("wait", pc), NR("woken", pc))

LEMMA NumbersType ==
  ASSUME FewWriters, NEW a, NEW p
  PROVE  NW(a, p) \in Nat /\ NR(a, p) \in Nat
BY CountIsNat, ChannelAssumption DEF FewWriters, ChannelAssumption, NW, NR

LEMMA SomebodyThere ==
  ASSUME FewWriters, NEW a, NEW p
  PROVE  /\ \A t \in Writers : p[t] = a => NW(a, p) > 0
         /\ \A t \in Readers : p[t] = a => NR(a, p) > 0
         /\ (\A t \in Writers : p[t] # a) => NW(a, p) = 0
         /\ (\A t \in Readers : p[t] # a) => NR(a, p) = 0
BY CountBounds, ChannelAssumption DEF FewWriters, ChannelAssumption, NW, NR

(* No more writers sleep or are awake than there are; and one that is       *)
(* elsewhere does not count among those about to notify.                    *)
LEMMA WritersFit ==
  ASSUME FewWriters, NEW p
  PROVE  /\ NW("wait", p) + NW("woken", p) <= Cap + 1
         /\ \A t \in Writers : p[t] # "notify" => NW("notify", p) <= Cap
<1>1. /\ Count(Writers, {"wait"} \cup {"woken"}, p) <= Cardinality(Writers)
      /\ \A t \in Writers : p[t] # "notify" => NW("notify", p) < Cardinality(Writers)
  BY CountBounds DEF FewWriters, NW
<1>2. Count(Writers, {"wait"} \cup {"woken"}, p) = NW("wait", p) + NW("woken", p)
  <2>1. {"wait"} \cap {"woken"} = {}
    OBVIOUS
  <2> QED
    BY <2>1, CountBoth DEF FewWriters, NW
<1>3. /\ NW("wait", p) \in Nat /\ NW("woken", p) \in Nat /\ NW("notify", p) \in Nat
      /\ Cardinality(Writers) \in Nat /\ Cardinality(Writers) <= Cap + 1 /\ Cap \in Nat
  BY NumbersType, FS_CardinalityType, ChannelAssumption DEF FewWriters, ChannelAssumption
<1> QED
  BY <1>1, <1>2, <1>3

LEMMA ClaimsCounted == Cardinality(Claims) = NR("wait", pc) + NR("woken", pc)
<1>1. {"wait"} \cap {"woken"} = {}
  OBVIOUS
<1>2. Count(Readers, {"wait"} \cup {"woken"}, pc) = NR("wait", pc) + NR("woken", pc)
  BY <1>1, CountBoth, ChannelAssumption DEF ChannelAssumption, NR
<1>3. Claims = {r \in Readers : pc[r] \in {"wait"} \cup {"woken"}}
  BY DEF Claims
<1> QED
  BY <1>2, <1>3 DEF Count

(* How the numbers that matter differ from p to q.                          *)
Shifted(p, q, asleep, woken, notify, closing, rasleep, rwoken) ==
  /\ NW("wait", q) = NW("wait", p) + asleep
  /\ NW("woken", q) = NW("woken", p) + woken
  /\ NW("notify", q) = NW("notify", p) + notify
  /\ NW("closing", q) = NW("closing", p) + closing
  /\ NR("wait", q) = NR("wait", p) + rasleep
  /\ NR("woken", q) = NR("woken", p) + rwoken

(* A thread that goes from b to c leaves a or arrives there.                *)
Gain(a, b, c) == IF b = c THEN 0 ELSE IF c = a THEN 1 ELSE IF b = a THEN -1 ELSE 0

Placed(p) == p \in [Threads -> WriterPC \cup ReaderPC]

Gains(D, a, p, t, c) ==
  Count(D, {a}, [p EXCEPT ![t] = c])
    = Count(D, {a}, p) + IF t \in D THEN Gain(a, p[t], c) ELSE 0

LEMMA OneMoves ==
  ASSUME NEW D, IsFiniteSet(D), D \subseteq Threads, NEW p, Placed(p),
         NEW t \in Threads, NEW c, NEW a
  PROVE  Gains(D, a, p, t, c)
<1>1. Count(D, {a}, p) \in Nat
  BY CountIsNat
<1>2. CountMoves(D, {a}, p, t, c, [p EXCEPT ![t] = c])
  BY CountMove DEF Placed
<1> QED
  BY <1>1, <1>2 DEF CountMoves, Gain, Gains

LEMMA EachMoves ==
  ASSUME FewWriters, NEW p, Placed(p), NEW t \in Threads, NEW c, NEW a
  PROVE  /\ NW(a, [p EXCEPT ![t] = c])
              = NW(a, p) + IF t \in Writers THEN Gain(a, p[t], c) ELSE 0
         /\ NR(a, [p EXCEPT ![t] = c])
              = NR(a, p) + IF t \in Readers THEN Gain(a, p[t], c) ELSE 0
<1>1. /\ Writers \subseteq Threads /\ IsFiniteSet(Writers)
      /\ Readers \subseteq Threads /\ IsFiniteSet(Readers)
  BY ChannelAssumption DEF FewWriters, ChannelAssumption, Threads
<1>2. Gains(Writers, a, p, t, c)
  BY <1>1, OneMoves
<1>3. Gains(Readers, a, p, t, c)
  BY <1>1, OneMoves
<1> QED
  BY <1>2, <1>3, Zenon DEF Gains, NW, NR

LEMMA WriterMoves ==
  ASSUME FewWriters, NEW p, Placed(p), NEW t \in Writers, NEW c
  PROVE  Shifted(p, [p EXCEPT ![t] = c], Gain("wait", p[t], c), Gain("woken", p[t], c),
                 Gain("notify", p[t], c), Gain("closing", p[t], c), 0, 0)
<1> DEFINE q == [p EXCEPT ![t] = c]
<1>1. t \in Threads /\ t \notin Readers
  BY ChannelAssumption DEF ChannelAssumption, Threads
<1>2. ASSUME NEW a
      PROVE  /\ NW(a, q) = NW(a, p) + IF t \in Writers THEN Gain(a, p[t], c) ELSE 0
             /\ NR(a, q) = NR(a, p) + IF t \in Readers THEN Gain(a, p[t], c) ELSE 0
  BY <1>1, EachMoves, SMT
<1> HIDE DEF q
<1>3. Shifted(p, q, Gain("wait", p[t], c), Gain("woken", p[t], c),
                 Gain("notify", p[t], c), Gain("closing", p[t], c), 0, 0)
  BY <1>1, <1>2, SMT DEF Shifted
<1> QED
  BY <1>3 DEF q

LEMMA ReaderMoves ==
  ASSUME FewWriters, NEW p, Placed(p), NEW t \in Readers, NEW c
  PROVE  Shifted(p, [p EXCEPT ![t] = c], 0, 0, 0, 0,
                 Gain("wait", p[t], c), Gain("woken", p[t], c))
<1> DEFINE q == [p EXCEPT ![t] = c]
<1>1. t \in Threads /\ t \notin Writers
  BY ChannelAssumption DEF ChannelAssumption, Threads
<1>2. ASSUME NEW a
      PROVE  /\ NW(a, q) = NW(a, p) + IF t \in Writers THEN Gain(a, p[t], c) ELSE 0
             /\ NR(a, q) = NR(a, p) + IF t \in Readers THEN Gain(a, p[t], c) ELSE 0
  BY <1>1, EachMoves, SMT
<1> HIDE DEF q
<1>3. Shifted(p, q, 0, 0, 0, 0, Gain("wait", p[t], c), Gain("woken", p[t], c))
  BY <1>1, <1>2, SMT DEF Shifted
<1> QED
  BY <1>3 DEF q

(* i of the w writers and j of the r readers that sleep are woken: any, and   *)
(* by notify_one exactly one thread unless nobody sleeps.                     *)
WokenFrom(i, j, w, r) == i <= w /\ j <= r
OneWoken(i, j, w, r) == WokenFrom(i, j, w, r) /\ (i = 1 \/ j = 1 \/ (w = 0 /\ r = 0))

Woken(p, q, i, j) ==
  /\ Shifted(p, q, 0 - i, i, 0, 0, 0 - j, j)
  /\ OneWoken(i, j, NW("wait", p), NR("wait", p))

(* notify_one wakes a writer or a reader, or nobody sleeps.                 *)
LEMMA OneNotified ==
  ASSUME FewWriters, NEW p, Placed(p), NEW q \in NotifyOne(p)
  PROVE  /\ Placed(q)
         /\ \A t \in Threads : p[t] # "wait" => q[t] = p[t]
         /\ \E i, j \in {0, 1} : Woken(p, q, i, j)
<1>0. Placed(q) /\ Wakes(p, q) /\ DOMAIN p = Threads
  BY OneWakes DEF Placed
<1>1. \A t \in Threads : p[t] # "wait" => q[t] = p[t]
  BY <1>0 DEF Wakes
<1>2. \/ Asleep(p) = {} /\ q = p
      \/ \E t \in Asleep(p) : t \in Threads /\ q = [p EXCEPT ![t] = "woken"]
  <2>1. Asleep(p) \subseteq Threads
    BY <1>0 DEF Asleep
  <2>2. CASE Asleep(p) = {}
    BY <2>2 DEF NotifyOne
  <2>3. CASE Asleep(p) # {}
    <3>1. PICK t \in Asleep(p) : q = [p EXCEPT ![t] = "woken"]
      BY <2>3 DEF NotifyOne
    <3> QED
      BY <2>1, <3>1
  <2> QED
    BY <2>2, <2>3
<1>3. CASE Asleep(p) = {} /\ q = p
  <2>1. NW("wait", p) = 0 /\ NR("wait", p) = 0
    <3>1. \A t \in Threads : p[t] # "wait"
      BY <1>0, <1>3 DEF Asleep
    <3> QED
      BY <3>1, SomebodyThere DEF Threads
  <2>2. Shifted(p, p, 0, 0, 0, 0, 0, 0)
    BY NumbersType DEF Shifted
  <2>3. Woken(p, q, 0, 0)
    BY <1>3, <2>1, <2>2 DEF Woken, OneWoken, WokenFrom
  <2> QED
    BY <1>0, <1>1, <2>3
<1>4. ASSUME NEW t \in Asleep(p), t \in Threads, q = [p EXCEPT ![t] = "woken"]
      PROVE  Woken(p, q, 1, 0) \/ Woken(p, q, 0, 1)
  <2>0. /\ p[t] = "wait" /\ Gain("wait", "wait", "woken") = -1 /\ Gain("woken", "wait", "woken") = 1
        /\ Gain("notify", "wait", "woken") = 0 /\ Gain("closing", "wait", "woken") = 0
    BY DEF Asleep, Gain
  <2>9. NW("wait", p) \in Nat /\ NR("wait", p) \in Nat
    BY NumbersType
  <2>1. CASE t \in Writers
    <3>1. NW("wait", p) > 0
      BY <2>0, <2>1, SomebodyThere
    <3>2. Shifted(p, q, Gain("wait", p[t], "woken"), Gain("woken", p[t], "woken"),
                  Gain("notify", p[t], "woken"), Gain("closing", p[t], "woken"), 0, 0)
      BY <1>4, <2>1, WriterMoves
    <3>3. Shifted(p, q, 0 - 1, 1, 0, 0, 0, 0)
      BY <2>0, <3>2
    <3> QED
      BY <2>9, <3>1, <3>3 DEF Woken, OneWoken, WokenFrom
  <2>2. CASE t \in Readers
    <3>1. NR("wait", p) > 0
      BY <2>0, <2>2, SomebodyThere
    <3>2. Shifted(p, q, 0, 0, 0, 0, Gain("wait", p[t], "woken"), Gain("woken", p[t], "woken"))
      BY <1>4, <2>2, ReaderMoves
    <3>3. Shifted(p, q, 0, 0, 0, 0, 0 - 1, 1)
      BY <2>0, <3>2
    <3> QED
      BY <2>9, <3>1, <3>3 DEF Woken, OneWoken, WokenFrom
  <2> QED
    BY <1>4, <2>1, <2>2 DEF Threads
<1>5. ASSUME \E t \in Asleep(p) : t \in Threads /\ q = [p EXCEPT ![t] = "woken"]
      PROVE  Woken(p, q, 1, 0) \/ Woken(p, q, 0, 1)
  BY <1>4, <1>5
<1> QED
  BY <1>0, <1>1, <1>2, <1>3, <1>5

-----------------------------------------------------------------------------
(* What each step does to the numbers.                                       *)
Before(c, len, z, w, ww, n, k, r, rw, i, j) ==
  /\ Covered(c, len, z, w, ww, n, k, r, rw)
  /\ Cap \in Nat /\ len \in Nat /\ z \in Int
  /\ w \in Nat /\ ww \in Nat /\ n \in Nat /\ k \in Nat /\ r \in Nat /\ rw \in Nat
  /\ i \in {0, 1} /\ j \in {0, 1}

LEMMA PushCovered ==
  ASSUME NEW c, NEW len, NEW z, NEW w, NEW ww, NEW n, NEW k, NEW r, NEW rw, NEW d, d \in {-1, 0},
         Before(c, len, z, w, ww, n, k, r, rw, 0, 0)
  PROVE  Covered(c, len + 1, z + 1, w + 0, ww + d, n + 1, k + 0, r + 0, rw + 0)
BY DEF Before, Covered

LEMMA SleepCovered ==
  ASSUME NEW c, NEW len, NEW z, NEW w, NEW ww, NEW n, NEW k, NEW r, NEW rw, NEW d, d \in {-1, 0},
         Before(c, len, z, w, ww, n, k, r, rw, 0, 0),
         ww + d >= 0, z >= Cap, n <= Cap, ~c => z = len - (r + rw)
  PROVE  Covered(c, len, z, w + 1, ww + d, n + 0, k + 0, r + 0, rw + 0)
<1>1. ~c => r = 0
  BY DEF Before, Covered
<1> QED
  BY <1>1 DEF Before, Covered

(* notify_one of a writer that has pushed: i, j are 1 if a writer, a reader  *)
(* was woken.                                                                *)
LEMMA NotifyCovered ==
  ASSUME NEW c, NEW len, NEW z, NEW w, NEW ww, NEW n, NEW k, NEW r, NEW rw, NEW i, NEW j,
         Before(c, len, z, w, ww, n, k, r, rw, i, j), OneWoken(i, j, w, r)
  PROVE  Covered(c, len, z, w + (0 - i), ww + i, n + -1, k + 0, r + (0 - j), rw + j)
BY DEF Before, Covered, OneWoken, WokenFrom

(* A reader that leaves takes an element, or finds the channel closed.       *)
Leaves(d, c) == d = 1 \/ c

(* A reader enters, wakes somebody and leaves: with an element, or from a    *)
(* closed channel.                                                           *)
LEMMA ReadCovered ==
  ASSUME NEW c, NEW len, NEW z, NEW w, NEW ww, NEW n, NEW k, NEW r, NEW rw, NEW i, NEW j,
         NEW d, d \in {0, 1},
         Before(c, len, z, w, ww, n, k, r, rw, i, j), OneWoken(i, j, w, r), Leaves(d, c)
  PROVE  Covered(c, len - d, z - 1, w + (0 - i), ww + i, n + 0, k + 0, r + (0 - j), rw + j)
BY DEF Before, Covered, OneWoken, WokenFrom, Leaves

(* A reader enters, wakes somebody and sleeps.                               *)
LEMMA ReadSleepCovered ==
  ASSUME NEW c, NEW z, NEW w, NEW ww, NEW n, NEW k, NEW r, NEW rw, NEW i, NEW j,
         Before(c, 0, z, w, ww, n, k, r, rw, i, j), OneWoken(i, j, w, r), ~c,
         w + ww <= Cap + 1, z = 0 - (r + rw)
  PROVE  Covered(c, 0, z - 1, w + (0 - i), ww + i, n + 0, k + 0, r + (1 - j), rw + j)
<1>1. w + (0 - i) = 0 /\ k = 0
  BY DEF Before, Covered, OneWoken, WokenFrom
<1> QED
  BY <1>1 DEF Before, Covered, OneWoken, WokenFrom

(* A reader that was woken leaves, or sleeps again.                          *)
LEMMA WokenCovered ==
  ASSUME NEW c, NEW len, NEW z, NEW w, NEW ww, NEW n, NEW k, NEW r, NEW rw, NEW d, d \in {0, 1},
         Before(c, len, z, w, ww, n, k, r, rw, 0, 0), Leaves(d, c)
  PROVE  Covered(c, len - d, z, w + 0, ww + 0, n + 0, k + 0, r + 0, rw + -1)
BY DEF Before, Covered, Leaves

LEMMA WokenSleepCovered ==
  ASSUME NEW c, NEW z, NEW w, NEW ww, NEW n, NEW k, NEW r, NEW rw,
         Before(c, 0, z, w, ww, n, k, r, rw, 0, 0),
         ~c, w + ww <= Cap + 1, z = 0 - (r + rw), rw >= 1
  PROVE  Covered(c, 0, z, w + 0, ww + 0, n + 0, k + 0, r + 1, rw + -1)
<1>1. w = 0 /\ k = 0
  BY DEF Before, Covered
<1> QED
  BY <1>1 DEF Before, Covered

(* Without a notification.                                                   *)
LEMMA SpuriousCovered ==
  ASSUME NEW c, NEW len, NEW z, NEW w, NEW ww, NEW n, NEW k, NEW r, NEW rw, NEW i, NEW j,
         Before(c, len, z, w, ww, n, k, r, rw, i, j), WokenFrom(i, j, w, r)
  PROVE  Covered(c, len, z, w + (0 - i), ww + i, n + 0, k + 0, r + (0 - j), rw + j)
BY DEF Before, Covered, WokenFrom

-----------------------------------------------------------------------------
(* The steps.                                                               *)
LEMMA ShiftedWake ==
  ASSUME NEW a, NEW b, NEW c, NEW d, NEW e, NEW f, Shifted(pc, pc', a, b, c, d, e, f),
         Covered(closed', Len(queue'), size', NW("wait", pc) + a, NW("woken", pc) + b,
                 NW("notify", pc) + c, NW("closing", pc) + d,
                 NR("wait", pc) + e, NR("woken", pc) + f)
  PROVE  WakeInv'
BY DEF Shifted, WakeInv

(* The numbers have their types, and size_ its account.                     *)
Tallied ==
  /\ Len(queue) \in Nat /\ size \in Int /\ Cap \in Nat
  /\ ~closed => size = Len(queue) - (NR("wait", pc) + NR("woken", pc))

LEMMA TalliedHolds == ASSUME IInv, FewWriters PROVE Tallied
<1>1. /\ Len(queue) \in Nat /\ size \in Int /\ Cap \in Nat /\ abandoned \in Nat
      /\ ~closed => abandoned = 0
  BY ChannelAssumption, LenProperties
     DEF IInv, TypeInv, TypeOK, ChannelAssumption, GoneOnlyIfClosed
<1>2. NR("wait", pc) \in Nat /\ NR("woken", pc) \in Nat
  BY NumbersType
<1>3. size = Len(queue) - (NR("wait", pc) + NR("woken", pc)) - abandoned
  BY ClaimsCounted DEF IInv, SizeAccounting
<1> QED
  BY <1>1, <1>2, <1>3 DEF Tallied

BeforeStep(i, j) ==
  Before(closed, Len(queue), size, NW("wait", pc), NW("woken", pc), NW("notify", pc),
         NW("closing", pc), NR("wait", pc), NR("woken", pc), i, j)

LEMMA BeforeHolds ==
  ASSUME IInv, FewWriters, WakeInv, NEW i \in {0, 1}, NEW j \in {0, 1}
  PROVE  BeforeStep(i, j)
<1>1. /\ NW("wait", pc) \in Nat /\ NW("woken", pc) \in Nat
      /\ NW("notify", pc) \in Nat /\ NW("closing", pc) \in Nat
      /\ NR("wait", pc) \in Nat /\ NR("woken", pc) \in Nat
  BY NumbersType
<1> QED
  BY <1>1, TalliedHolds DEF Before, BeforeStep, WakeInv, Tallied

LEMMA QuietWake ==
  ASSUME FewWriters, WakeInv, NEW t \in Threads, NEW c, Placed(pc),
         pc[t] \notin {"wait", "woken", "notify", "closing"},
         c \notin {"wait", "woken", "notify", "closing"},
         pc' = [pc EXCEPT ![t] = c], UNCHANGED <<queue, size, closed>>
  PROVE  WakeInv'
<1>1. \A a \in {"wait", "woken", "notify", "closing"} : Gain(a, pc[t], c) = 0
  BY DEF Gain
<1>2. Shifted(pc, pc', 0, 0, 0, 0, 0, 0)
  <2>1. CASE t \in Writers
    BY <1>1, <2>1, WriterMoves
  <2>2. CASE t \in Readers
    BY <1>1, <2>2, ReaderMoves
  <2> QED
    BY <2>1, <2>2 DEF Threads
<1>3. /\ NW("wait", pc) \in Nat /\ NW("woken", pc) \in Nat
      /\ NW("notify", pc) \in Nat /\ NW("closing", pc) \in Nat
      /\ NR("wait", pc) \in Nat /\ NR("woken", pc) \in Nat
  BY NumbersType
<1>4. /\ NW("wait", pc') = NW("wait", pc) /\ NW("woken", pc') = NW("woken", pc)
      /\ NW("notify", pc') = NW("notify", pc) /\ NW("closing", pc') = NW("closing", pc)
      /\ NR("wait", pc') = NR("wait", pc) /\ NR("woken", pc') = NR("woken", pc)
  BY <1>2, <1>3 DEF Shifted
<1> QED
  BY <1>4 DEF WakeInv

LEMMA WriteLockedWake ==
  ASSUME FewWriters, IInv, WakeInv, NEW w \in Writers, WriteLocked(w)
  PROVE  WakeInv'
<1> DEFINE k == IF pc[w] = "woken" THEN -1 ELSE 0
<1>0. /\ Tallied /\ Placed(pc) /\ pc[w] \in {"enter", "woken"} /\ closed' = closed
      /\ queue \in Seq(Elements) /\ k \in {-1, 0}
  BY TalliedHolds DEF WriteLocked, IInv, TypeInv, TypeOK, Placed
<1>1. /\ NW("wait", pc) \in Nat /\ NW("woken", pc) \in Nat
      /\ NW("notify", pc) \in Nat /\ NW("closing", pc) \in Nat
      /\ NR("wait", pc) \in Nat /\ NR("woken", pc) \in Nat
  BY NumbersType
<1>2. CASE Room
  <2>1. /\ pc' = [pc EXCEPT ![w] = "notify"] /\ size' = size + 1
        /\ Len(queue') = Len(queue) + 1
    BY <1>0, <1>2 DEF WriteLocked, Push
  <2>2. Shifted(pc, pc', 0, k, 1, 0, 0, 0)
    <3>1. /\ Gain("wait", pc[w], "notify") = 0 /\ Gain("woken", pc[w], "notify") = k
          /\ Gain("notify", pc[w], "notify") = 1 /\ Gain("closing", pc[w], "notify") = 0
      BY <1>0 DEF Gain
    <3>2. Shifted(pc, pc', Gain("wait", pc[w], "notify"), Gain("woken", pc[w], "notify"),
                  Gain("notify", pc[w], "notify"), Gain("closing", pc[w], "notify"), 0, 0)
      BY <1>0, <2>1, WriterMoves
    <3> QED
      BY <3>1, <3>2
  <2> HIDE DEF k
  <2>3. Covered(closed, Len(queue) + 1, size + 1, NW("wait", pc) + 0, NW("woken", pc) + k,
                NW("notify", pc) + 1, NW("closing", pc) + 0,
                NR("wait", pc) + 0, NR("woken", pc) + 0)
    <3>1. BeforeStep(0, 0)
      BY BeforeHolds
    <3> QED
      BY <1>0, <1>1, <3>1, PushCovered DEF BeforeStep, Tallied
  <2>4. Covered(closed', Len(queue'), size', NW("wait", pc) + 0, NW("woken", pc) + k,
                NW("notify", pc) + 1, NW("closing", pc) + 0,
                NR("wait", pc) + 0, NR("woken", pc) + 0)
    BY <1>0, <1>1, <2>1, <2>3
  <2> QED
    BY <2>2, <2>4, ShiftedWake
<1>3. CASE ~Room
  <2>1. pc' = [pc EXCEPT ![w] = "wait"] /\ UNCHANGED <<queue, size>> /\ Cap <= size
    BY <1>0, <1>3 DEF WriteLocked, Room, Tallied
  <2>2. Shifted(pc, pc', 1, k, 0, 0, 0, 0)
    <3>1. /\ Gain("wait", pc[w], "wait") = 1 /\ Gain("woken", pc[w], "wait") = k
          /\ Gain("notify", pc[w], "wait") = 0 /\ Gain("closing", pc[w], "wait") = 0
      BY <1>0 DEF Gain
    <3>2. Shifted(pc, pc', Gain("wait", pc[w], "wait"), Gain("woken", pc[w], "wait"),
                  Gain("notify", pc[w], "wait"), Gain("closing", pc[w], "wait"), 0, 0)
      BY <1>0, <2>1, WriterMoves
    <3> QED
      BY <3>1, <3>2
  <2>3. NW("woken", pc) + k >= 0
    <3>1. pc[w] = "woken" => NW("woken", pc) > 0
      BY SomebodyThere
    <3> QED
      BY <1>1, <3>1
  <2>4. NW("notify", pc) <= Cap
    BY <1>0, WritersFit
  <2> HIDE DEF k
  <2>5. Covered(closed, Len(queue), size, NW("wait", pc) + 1, NW("woken", pc) + k,
                NW("notify", pc) + 0, NW("closing", pc) + 0,
                NR("wait", pc) + 0, NR("woken", pc) + 0)
    <3>1. BeforeStep(0, 0)
      BY BeforeHolds
    <3> QED
      BY <1>0, <1>1, <2>1, <2>3, <2>4, <3>1, SleepCovered DEF BeforeStep, Tallied
  <2>6. Covered(closed', Len(queue'), size', NW("wait", pc) + 1, NW("woken", pc) + k,
                NW("notify", pc) + 0, NW("closing", pc) + 0,
                NR("wait", pc) + 0, NR("woken", pc) + 0)
    BY <1>0, <1>1, <2>1, <2>5
  <2> QED
    BY <2>2, <2>6, ShiftedWake
<1> QED
  BY <1>2, <1>3

LEMMA WriteNotifyWake ==
  ASSUME FewWriters, IInv, WakeInv, NEW w \in Writers, WriteNotify(w)
  PROVE  WakeInv'
<1> DEFINE p == [pc EXCEPT ![w] = "idle"]
<1>0. /\ Tallied /\ Placed(pc) /\ pc[w] = "notify" /\ pc' \in NotifyOne(p)
      /\ UNCHANGED <<queue, size, closed>>
  BY TalliedHolds DEF WriteNotify, IInv, TypeInv, TypeOK, Placed
<1>1. /\ NW("wait", pc) \in Nat /\ NW("woken", pc) \in Nat
      /\ NW("notify", pc) \in Nat /\ NW("closing", pc) \in Nat
      /\ NR("wait", pc) \in Nat /\ NR("woken", pc) \in Nat
  BY NumbersType
<1>2. Shifted(pc, p, 0, 0, -1, 0, 0, 0)
  <2>1. /\ Gain("wait", pc[w], "idle") = 0 /\ Gain("woken", pc[w], "idle") = 0
        /\ Gain("notify", pc[w], "idle") = -1 /\ Gain("closing", pc[w], "idle") = 0
    BY <1>0 DEF Gain
  <2>2. Shifted(pc, p, Gain("wait", pc[w], "idle"), Gain("woken", pc[w], "idle"),
                Gain("notify", pc[w], "idle"), Gain("closing", pc[w], "idle"), 0, 0)
    BY <1>0, WriterMoves
  <2> QED
    BY <2>1, <2>2
<1>3. Placed(p)
  BY <1>0 DEF Placed, WriterPC
<1> HIDE DEF p
<1>4. PICK i, j \in {0, 1} : Woken(p, pc', i, j)
  BY <1>0, <1>3, OneNotified
<1>5. /\ OneWoken(i, j, NW("wait", pc), NR("wait", pc))
      /\ Shifted(pc, pc', 0 - i, i, -1, 0, 0 - j, j)
  <2>1. Shifted(p, pc', 0 - i, i, 0, 0, 0 - j, j)
    BY <1>4 DEF Woken
  <2>2. NW("wait", p) = NW("wait", pc) /\ NR("wait", p) = NR("wait", pc)
    BY <1>1, <1>2 DEF Shifted
  <2>3. Shifted(pc, pc', 0 - i, i, -1, 0, 0 - j, j)
    BY <1>1, <1>2, <2>1 DEF Shifted
  <2> QED
    BY <1>4, <2>2, <2>3 DEF Woken
<1>6. Covered(closed, Len(queue), size, NW("wait", pc) + (0 - i), NW("woken", pc) + i,
              NW("notify", pc) + -1, NW("closing", pc) + 0,
              NR("wait", pc) + (0 - j), NR("woken", pc) + j)
  <2>1. BeforeStep(i, j)
    BY BeforeHolds
  <2> QED
    BY <1>0, <1>1, <1>5, <2>1, NotifyCovered DEF BeforeStep, Tallied
<1>7. Covered(closed', Len(queue'), size', NW("wait", pc) + (0 - i), NW("woken", pc) + i,
              NW("notify", pc) + -1, NW("closing", pc) + 0,
              NR("wait", pc) + (0 - j), NR("woken", pc) + j)
  BY <1>0, <1>1, <1>6
<1> QED
  BY <1>5, <1>7, ShiftedWake

LEMMA CloseWake ==
  ASSUME FewWriters, IInv, WakeInv, NEW w \in Writers, CloseStore(w) \/ CloseNotify(w)
  PROVE  WakeInv'
<1>0. Placed(pc)
  BY DEF IInv, TypeInv, TypeOK, Placed
<1>1. /\ NW("wait", pc) \in Nat /\ NW("woken", pc) \in Nat
      /\ NW("notify", pc) \in Nat /\ NW("closing", pc) \in Nat
      /\ NR("wait", pc) \in Nat /\ NR("woken", pc) \in Nat
  BY NumbersType
<1>2. CASE CloseStore(w)
  <2>1. /\ pc[w] = "idle" /\ pc' = [pc EXCEPT ![w] = "closing"] /\ closed' = TRUE
        /\ UNCHANGED <<queue, size>>
    BY <1>2 DEF CloseStore
  <2>2. Shifted(pc, pc', 0, 0, 0, 1, 0, 0)
    <3>1. /\ Gain("wait", pc[w], "closing") = 0 /\ Gain("woken", pc[w], "closing") = 0
          /\ Gain("notify", pc[w], "closing") = 0 /\ Gain("closing", pc[w], "closing") = 1
      BY <2>1 DEF Gain
    <3>2. Shifted(pc, pc', Gain("wait", pc[w], "closing"), Gain("woken", pc[w], "closing"),
                  Gain("notify", pc[w], "closing"), Gain("closing", pc[w], "closing"), 0, 0)
      BY <1>0, <2>1, WriterMoves
    <3> QED
      BY <3>1, <3>2
  <2>3. Covered(TRUE, Len(queue), size, NW("wait", pc) + 0, NW("woken", pc) + 0,
                NW("notify", pc) + 0, NW("closing", pc) + 1,
                NR("wait", pc) + 0, NR("woken", pc) + 0)
    BY <1>1 DEF Covered
  <2> QED
    BY <2>1, <2>2, <2>3, ShiftedWake
<1>3. CASE CloseNotify(w)
  <2> DEFINE p == [pc EXCEPT ![w] = "idle"]
  <2>1. /\ pc[w] = "closing" /\ pc' = NotifyAll(p) /\ UNCHANGED <<queue, size, closed>>
    BY <1>3 DEF CloseNotify, CloseWakes
  <2>2. p \in [Threads -> WriterPC \cup ReaderPC]
    BY <1>0 DEF Placed, WriterPC
  <2> HIDE DEF p
  <2>3. \A t \in Threads : pc'[t] # "wait"
    BY <2>1, <2>2 DEF NotifyAll
  <2>4. NW("wait", pc') = 0 /\ NR("wait", pc') = 0
    BY <2>3, SomebodyThere DEF Threads
  <2>5. closed'
    <3>1. NW("closing", pc) > 0
      BY <2>1, SomebodyThere
    <3> QED
      BY <2>1, <3>1 DEF WakeInv, Covered
  <2> QED
    BY <2>4, <2>5 DEF WakeInv, Covered
<1> QED
  BY <1>2, <1>3

LEMMA ReadEnterWake ==
  ASSUME FewWriters, IInv, WakeInv, NEW r \in Readers, ReadEnter(r)
  PROVE  WakeInv'
<1>0. /\ Tallied /\ Placed(pc) /\ TypeOK /\ pc[r] = "enter" /\ size' = size - 1
      /\ closed' = closed /\ r \in Threads /\ ReadWait(r)
  BY TalliedHolds DEF ReadEnter, Claim, IInv, TypeInv, TypeOK, Placed, Threads
<1>1. /\ NW("wait", pc) \in Nat /\ NW("woken", pc) \in Nat
      /\ NW("notify", pc) \in Nat /\ NW("closing", pc) \in Nat
      /\ NR("wait", pc) \in Nat /\ NR("woken", pc) \in Nat
  BY NumbersType
<1>2. PICK p \in NotifyOne(pc) : pc' = [p EXCEPT ![r] = AfterWait]
  BY DEF ReadEnter, ReadEnterWakes
<1>3. Placed(p) /\ p[r] = "enter"
  BY <1>0, OneNotified
<1>4. PICK i, j \in {0, 1} : Woken(pc, p, i, j)
  BY <1>0, OneNotified
<1>5. /\ OneWoken(i, j, NW("wait", pc), NR("wait", pc))
      /\ Shifted(pc, p, 0 - i, i, 0, 0, 0 - j, j)
  BY <1>4 DEF Woken
<1>6. Shifted(p, pc', 0, 0, 0, 0, Gain("wait", "enter", AfterWait),
                Gain("woken", "enter", AfterWait))
  BY <1>2, <1>3, ReaderMoves
<1>7. ASSUME AfterWait = "idle", NEW d \in {0, 1}, Len(queue') = Len(queue) - d,
             Leaves(d, closed)
      PROVE  WakeInv'
  <2>1. Shifted(p, pc', 0, 0, 0, 0, 0, 0)
    <3>1. Gain("wait", "enter", AfterWait) = 0 /\ Gain("woken", "enter", AfterWait) = 0
      BY <1>7 DEF Gain
    <3> QED
      BY <1>6, <3>1
  <2>2. Shifted(pc, pc', 0 - i, i, 0, 0, 0 - j, j)
    BY <1>1, <1>5, <2>1 DEF Shifted
  <2>3. Covered(closed, Len(queue) - d, size - 1, NW("wait", pc) + (0 - i), NW("woken", pc) + i,
                NW("notify", pc) + 0, NW("closing", pc) + 0,
                NR("wait", pc) + (0 - j), NR("woken", pc) + j)
    <3>1. BeforeStep(i, j)
      BY BeforeHolds
    <3> QED
      BY <1>0, <1>1, <1>5, <1>7, <3>1, ReadCovered DEF BeforeStep, Tallied
  <2>4. Covered(closed', Len(queue'), size', NW("wait", pc) + (0 - i), NW("woken", pc) + i,
                NW("notify", pc) + 0, NW("closing", pc) + 0,
                NR("wait", pc) + (0 - j), NR("woken", pc) + j)
    BY <1>0, <1>1, <1>7, <2>3
  <2> QED
    BY <2>2, <2>4, ShiftedWake
<1>8. ASSUME AfterWait = "wait", queue = <<>>, queue' = queue, ~closed
      PROVE  WakeInv'
  <2>1. Shifted(p, pc', 0, 0, 0, 0, 1, 0)
    <3>1. Gain("wait", "enter", AfterWait) = 1 /\ Gain("woken", "enter", AfterWait) = 0
      BY <1>8 DEF Gain
    <3> QED
      BY <1>6, <3>1
  <2>2. Shifted(pc, pc', 0 - i, i, 0, 0, 1 - j, j)
    BY <1>1, <1>5, <2>1 DEF Shifted
  <2>3. Len(queue) = 0 /\ size = 0 - (NR("wait", pc) + NR("woken", pc))
    BY <1>0, <1>1, <1>8 DEF Tallied
  <2>4. NW("wait", pc) + NW("woken", pc) <= Cap + 1
    BY WritersFit
  <2>5. Covered(closed, 0, size - 1, NW("wait", pc) + (0 - i), NW("woken", pc) + i,
                NW("notify", pc) + 0, NW("closing", pc) + 0,
                NR("wait", pc) + (1 - j), NR("woken", pc) + j)
    <3>1. BeforeStep(i, j)
      BY BeforeHolds
    <3> QED
      BY <1>0, <1>1, <1>5, <1>8, <2>3, <2>4, <3>1, ReadSleepCovered DEF BeforeStep, Tallied
  <2>6. Covered(closed', Len(queue'), size', NW("wait", pc) + (0 - i), NW("woken", pc) + i,
                NW("notify", pc) + 0, NW("closing", pc) + 0,
                NR("wait", pc) + (1 - j), NR("woken", pc) + j)
    BY <1>0, <1>1, <1>8, <2>3, <2>5
  <2> QED
    BY <2>2, <2>6, ShiftedWake
<1>9. CASE AfterWait = "idle" /\ Len(queue') = Len(queue) - 1
  BY <1>7, <1>9 DEF Leaves
<1>10. CASE AfterWait = "idle" /\ queue' = queue /\ closed
  <2>1. Len(queue') = Len(queue) - 0
    BY <1>0, <1>10 DEF Tallied
  <2> QED
    BY <1>7, <1>10, <2>1 DEF Leaves
<1> QED
  BY <1>0, <1>8, <1>9, <1>10, ReadWaitCases

LEMMA ReadWokenWake ==
  ASSUME FewWriters, IInv, WakeInv, NEW r \in Readers, ReadWoken(r)
  PROVE  WakeInv'
<1>0. /\ Tallied /\ Placed(pc) /\ TypeOK /\ pc[r] = "woken" /\ size' = size
      /\ closed' = closed /\ r \in Threads /\ ReadWait(r)
      /\ pc' = [pc EXCEPT ![r] = AfterWait]
  BY TalliedHolds DEF ReadWoken, IInv, TypeInv, TypeOK, Placed, Threads
<1>1. /\ NW("wait", pc) \in Nat /\ NW("woken", pc) \in Nat
      /\ NW("notify", pc) \in Nat /\ NW("closing", pc) \in Nat
      /\ NR("wait", pc) \in Nat /\ NR("woken", pc) \in Nat
  BY NumbersType
<1>2. Shifted(pc, pc', 0, 0, 0, 0, Gain("wait", "woken", AfterWait),
                Gain("woken", "woken", AfterWait))
  BY <1>0, ReaderMoves
<1>3. ASSUME AfterWait = "idle", NEW d \in {0, 1}, Len(queue') = Len(queue) - d,
             Leaves(d, closed)
      PROVE  WakeInv'
  <2>1. Shifted(pc, pc', 0, 0, 0, 0, 0, -1)
    <3>1. Gain("wait", "woken", AfterWait) = 0 /\ Gain("woken", "woken", AfterWait) = -1
      BY <1>3 DEF Gain
    <3> QED
      BY <1>2, <3>1
  <2>2. Covered(closed, Len(queue) - d, size, NW("wait", pc) + 0, NW("woken", pc) + 0,
                NW("notify", pc) + 0, NW("closing", pc) + 0,
                NR("wait", pc) + 0, NR("woken", pc) + -1)
    <3>1. BeforeStep(0, 0)
      BY BeforeHolds
    <3> QED
      BY <1>0, <1>1, <1>3, <3>1, WokenCovered DEF BeforeStep, Tallied
  <2>3. Covered(closed', Len(queue'), size', NW("wait", pc) + 0, NW("woken", pc) + 0,
                NW("notify", pc) + 0, NW("closing", pc) + 0,
                NR("wait", pc) + 0, NR("woken", pc) + -1)
    BY <1>0, <1>1, <1>3, <2>2
  <2> QED
    BY <2>1, <2>3, ShiftedWake
<1>4. ASSUME AfterWait = "wait", queue = <<>>, queue' = queue, ~closed
      PROVE  WakeInv'
  <2>1. Shifted(pc, pc', 0, 0, 0, 0, 1, -1)
    <3>1. Gain("wait", "woken", AfterWait) = 1 /\ Gain("woken", "woken", AfterWait) = -1
      BY <1>4 DEF Gain
    <3> QED
      BY <1>2, <3>1
  <2>2. Len(queue) = 0 /\ size = 0 - (NR("wait", pc) + NR("woken", pc))
    BY <1>0, <1>1, <1>4 DEF Tallied
  <2>3. NW("wait", pc) + NW("woken", pc) <= Cap + 1 /\ NR("woken", pc) >= 1
    <3>1. NR("woken", pc) > 0
      BY <1>0, SomebodyThere
    <3> QED
      BY <1>1, <3>1, WritersFit
  <2>4. Covered(closed, 0, size, NW("wait", pc) + 0, NW("woken", pc) + 0,
                NW("notify", pc) + 0, NW("closing", pc) + 0,
                NR("wait", pc) + 1, NR("woken", pc) + -1)
    <3>1. BeforeStep(0, 0)
      BY BeforeHolds
    <3> QED
      BY <1>0, <1>1, <1>4, <2>2, <2>3, <3>1, WokenSleepCovered DEF BeforeStep, Tallied
  <2>5. Covered(closed', Len(queue'), size', NW("wait", pc) + 0, NW("woken", pc) + 0,
                NW("notify", pc) + 0, NW("closing", pc) + 0,
                NR("wait", pc) + 1, NR("woken", pc) + -1)
    BY <1>0, <1>1, <1>4, <2>2, <2>4
  <2> QED
    BY <2>1, <2>5, ShiftedWake
<1>5. CASE AfterWait = "idle" /\ Len(queue') = Len(queue) - 1
  BY <1>3, <1>5 DEF Leaves
<1>6. CASE AfterWait = "idle" /\ queue' = queue /\ closed
  <2>1. Len(queue') = Len(queue) - 0
    BY <1>0, <1>6 DEF Tallied
  <2> QED
    BY <1>3, <1>6, <2>1 DEF Leaves
<1> QED
  BY <1>0, <1>4, <1>5, <1>6, ReadWaitCases

LEMMA SpuriousWakeKeeps ==
  ASSUME FewWriters, IInv, WakeInv, NEW t \in Threads, SpuriousWake(t)
  PROVE  WakeInv'
<1>0. /\ Tallied /\ Placed(pc) /\ pc[t] = "wait" /\ pc' = [pc EXCEPT ![t] = "woken"]
      /\ UNCHANGED <<queue, size, closed>>
  BY TalliedHolds DEF SpuriousWake, IInv, TypeInv, TypeOK, Placed
<1>1. /\ NW("wait", pc) \in Nat /\ NW("woken", pc) \in Nat
      /\ NW("notify", pc) \in Nat /\ NW("closing", pc) \in Nat
      /\ NR("wait", pc) \in Nat /\ NR("woken", pc) \in Nat
  BY NumbersType
<1>2. /\ Gain("wait", pc[t], "woken") = 0 - 1 /\ Gain("woken", pc[t], "woken") = 1
      /\ Gain("notify", pc[t], "woken") = 0 /\ Gain("closing", pc[t], "woken") = 0
  BY <1>0 DEF Gain
<1>3. ASSUME NEW i \in {0, 1}, NEW j \in {0, 1}, WokenFrom(i, j, NW("wait", pc), NR("wait", pc)),
             Shifted(pc, pc', 0 - i, i, 0, 0, 0 - j, j)
      PROVE  WakeInv'
  <2>1. Covered(closed, Len(queue), size, NW("wait", pc) + (0 - i), NW("woken", pc) + i,
                NW("notify", pc) + 0, NW("closing", pc) + 0,
                NR("wait", pc) + (0 - j), NR("woken", pc) + j)
    <3>1. BeforeStep(i, j)
      BY BeforeHolds
    <3> QED
      BY <1>0, <1>1, <1>3, <3>1, SpuriousCovered DEF BeforeStep, Tallied
  <2>2. Covered(closed', Len(queue'), size', NW("wait", pc) + (0 - i), NW("woken", pc) + i,
                NW("notify", pc) + 0, NW("closing", pc) + 0,
                NR("wait", pc) + (0 - j), NR("woken", pc) + j)
    BY <1>0, <1>1, <2>1
  <2> QED
    BY <1>3, <2>2, ShiftedWake
<1>4. CASE t \in Writers
  <2>1. Shifted(pc, pc', 0 - 1, 1, 0, 0, 0, 0)
    <3>1. Shifted(pc, pc', Gain("wait", pc[t], "woken"), Gain("woken", pc[t], "woken"),
                  Gain("notify", pc[t], "woken"), Gain("closing", pc[t], "woken"), 0, 0)
      BY <1>0, <1>4, WriterMoves
    <3> QED
      BY <1>2, <3>1
  <2>2. Shifted(pc, pc', 0 - 1, 1, 0, 0, 0 - 0, 0) /\ WokenFrom(1, 0, NW("wait", pc), NR("wait", pc))
    <3>1. NW("wait", pc) > 0
      BY <1>0, <1>4, SomebodyThere
    <3> QED
      BY <1>1, <2>1, <3>1 DEF WokenFrom
  <2> QED
    BY <1>1, <1>3, <2>2
<1>5. CASE t \in Readers
  <2>1. Shifted(pc, pc', 0, 0, 0, 0, 0 - 1, 1)
    <3>1. Shifted(pc, pc', 0, 0, 0, 0, Gain("wait", pc[t], "woken"), Gain("woken", pc[t], "woken"))
      BY <1>0, <1>5, ReaderMoves
    <3> QED
      BY <1>2, <3>1
  <2>2. Shifted(pc, pc', 0 - 0, 0, 0, 0, 0 - 1, 1) /\ WokenFrom(0, 1, NW("wait", pc), NR("wait", pc))
    <3>1. NR("wait", pc) > 0
      BY <1>0, <1>5, SomebodyThere
    <3> QED
      BY <1>1, <2>1, <3>1 DEF WokenFrom
  <2> QED
    BY <1>1, <1>3, <2>2
<1> QED
  BY <1>4, <1>5 DEF Threads

LEMMA WakeStep == FewWriters /\ IInv /\ WakeInv /\ [Next]_vars => WakeInv'
<1> SUFFICES ASSUME FewWriters, IInv, WakeInv, [Next]_vars PROVE WakeInv'
  OBVIOUS
<1>0. Placed(pc)
  BY DEF IInv, TypeInv, TypeOK, Placed
<1>1. ASSUME NEW w \in Writers, WriteCheck(w) PROVE WakeInv'
  <2>1. /\ w \in Threads /\ pc[w] = "idle" /\ UNCHANGED <<queue, size, closed>>
        /\ \E c \in {"threw", "enter"} : pc' = [pc EXCEPT ![w] = c]
    BY <1>1 DEF WriteCheck, Threads
  <2> QED
    BY <1>0, <2>1, QuietWake
<1>2. ASSUME NEW r \in Readers, ReadCall(r) \/ ReadCheck(r) PROVE WakeInv'
  <2>1. /\ r \in Threads /\ pc[r] \in {"idle", "call"} /\ UNCHANGED <<queue, size, closed>>
        /\ \E c \in {"call", "done", "idle", "enter"} : pc' = [pc EXCEPT ![r] = c]
    BY <1>2 DEF ReadCall, ReadCheck, Threads
  <2> QED
    BY <1>0, <2>1, QuietWake
<1>3. CASE UNCHANGED vars
  BY <1>3 DEF vars, WakeInv
<1>4. ASSUME NEW w \in Writers, WriteLocked(w) \/ WriteNotify(w) PROVE WakeInv'
  BY <1>4, WriteLockedWake, WriteNotifyWake
<1>5. ASSUME NEW w \in Writers, CloseStore(w) \/ CloseNotify(w) PROVE WakeInv'
  BY <1>5, CloseWake
<1>6. ASSUME NEW r \in Readers, ReadEnter(r) \/ ReadWoken(r) PROVE WakeInv'
  BY <1>6, ReadEnterWake, ReadWokenWake
<1>7. ASSUME NEW t \in Threads, SpuriousWake(t) PROVE WakeInv'
  BY <1>7, SpuriousWakeKeeps
<1> QED
  BY <1>1, <1>2, <1>3, <1>4, <1>5, <1>6, <1>7 DEF Next, WriterStep, ReaderStep

LEMMA WakeCorrect == ASSUME FewWriters PROVE Spec => []WakeInv
<1>1. Init => WakeInv
  <2> SUFFICES ASSUME Init PROVE WakeInv
    OBVIOUS
  <2>1. \A t \in Threads : pc[t] = "idle"
    BY DEF Init
  <2>2. NW("wait", pc) = 0 /\ NR("wait", pc) = 0 /\ NW("closing", pc) = 0
    BY <2>1, SomebodyThere DEF Threads
  <2> QED
    BY <2>2 DEF WakeInv, Covered
<1>2. IInv /\ WakeInv /\ [Next]_vars => WakeInv'
  BY WakeStep
<1> QED
  BY <1>1, <1>2, AccountingInv, PTL DEF Spec

LEMMA NobodyAwake ==
  ASSUME FewWriters, Quiescent
  PROVE  /\ NW("woken", pc) = 0 /\ NW("notify", pc) = 0 /\ NW("closing", pc) = 0
         /\ NR("woken", pc) = 0
<1>1. \A t \in Threads : pc[t] \notin {"woken", "notify", "closing"}
  BY DEF Quiescent
<1> QED
  BY <1>1, SomebodyThere DEF Threads

(* With at most cap_ + 1 writers no reader is left asleep next to an         *)
(* element or on a closed channel, whatever the number of readers and        *)
(* whoever the notifications of lines 179, 189 and 203 reach.                *)
THEOREM ReadersAreWoken == ASSUME FewWriters PROVE Spec => []NoReaderLeftAsleep
<1>1. IInv /\ WakeInv => NoReaderLeftAsleep
  <2> SUFFICES ASSUME IInv, WakeInv, Quiescent, CanRead, NEW r \in Readers, pc[r] = "wait"
               PROVE  FALSE
    BY DEF NoReaderLeftAsleep
  <2>1. NR("wait", pc) > 0
    BY SomebodyThere
  <2>2. NR("wait", pc) \in Nat /\ NW("wait", pc) \in Nat
    BY NumbersType
  <2>3. Len(queue) \in Nat /\ (queue # <<>> => Len(queue) > 0)
    BY LenProperties, EmptySeq DEF IInv, TypeInv, TypeOK
  <2> QED
    BY <2>1, <2>2, <2>3, NobodyAwake DEF WakeInv, Covered, CanRead
<1> QED
  BY <1>1, AccountingInv, WakeCorrect, PTL

(* With at most cap_ + 1 writers no writer is left asleep while there is     *)
(* room: the notify_one of a reader (line 189) reaches a writer.             *)
THEOREM WritersAreWoken == ASSUME FewWriters PROVE Spec => []NoWriterLeftAsleep
<1>1. IInv /\ WakeInv => NoWriterLeftAsleep
  <2> SUFFICES ASSUME IInv, WakeInv, Quiescent, Room, NEW w \in Writers, pc[w] = "wait"
               PROVE  FALSE
    BY DEF NoWriterLeftAsleep
  <2>1. NW("wait", pc) > 0
    BY SomebodyThere
  <2>2. size < Cap /\ size \in Int /\ Cap \in Nat
    BY TalliedHolds DEF Room, Tallied
  <2> QED
    BY <2>1, <2>2, NobodyAwake DEF WakeInv, Covered
<1> QED
  BY <1>1, AccountingInv, WakeCorrect, PTL
=============================================================================
