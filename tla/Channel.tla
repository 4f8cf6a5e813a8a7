------------------------------ MODULE Channel ------------------------------
(***************************************************************************)
(* libsync::Channel (channel.hpp): a bounded queue shared by threads, with  *)
(* one mutex and ONE condition variable for readers and writers alike.      *)
(*                                                                          *)
(* A section under the mutex is one action.  What the code does outside it  *)
(* is a step of its own: the closed() test of <<, the closed()&&empty()     *)
(* test of >>, the notify_one after a push, the notify_all after close, and *)
(* the test of a range-for loop over the channel.                           *)
(***************************************************************************)
EXTENDS Integers, Sequences, FiniteSets, CondVar

CONSTANTS
  Writers,       \* threads that call << and close
  Readers,       \* threads that call >>
  RangeReaders,  \* the readers that do so through a range-for loop
  Cap,           \* cap_; 0 is the unbuffered channel
  Quota,         \* bound: elements each writer sends
  NoValue        \* value_{} of an iterator that has read nothing

Elements == Writers \X (1..Quota)
Threads == Writers \cup Readers

ASSUME ChannelAssumption ==
  /\ Writers \cap Readers = {}
  /\ IsFiniteSet(Readers)
  /\ RangeReaders \subseteq Readers
  /\ Cap \in Nat
  /\ Quota \in Nat
  /\ NoValue \notin Elements

VARIABLES
  pc,         \* where each thread is
  queue,      \* queue_
  size,       \* size_: pushed elements less calls of >> that took the lock
  closed,     \* is_closed_
  out,        \* each reader's output argument (value_ of an iterator)
  sent,       \* how many elements each writer has pushed
  pushed,     \* history: every element pushed, in order
  taken,      \* history: every pop, in order, as [by, val]
  yielded,    \* history: what each range-for body was given, in order
  abandoned   \* history: calls of >> that took the lock and popped nothing

vars == <<pc, queue, size, closed, out, sent, pushed, taken, yielded, abandoned>>

WriterPC == {"idle", "enter", "wait", "woken", "notify", "closing", "threw"}
ReaderPC == {"idle", "call", "enter", "wait", "woken", "done"}

(* One type invariant for the state of channel.hpp:145-150 and its threads. *)
TypeOK ==
  /\ pc \in [Threads -> WriterPC \cup ReaderPC]
  /\ \A w \in Writers : pc[w] \in WriterPC
  /\ \A r \in Readers : pc[r] \in ReaderPC
  /\ queue \in Seq(Elements)
  /\ size \in Int
  /\ closed \in BOOLEAN
  /\ out \in [Readers -> Elements \cup {NoValue}]
  /\ sent \in [Writers -> 0..Quota]
  /\ pushed \in Seq(Elements)
  /\ taken \in Seq([by : Readers, val : Elements])
  /\ yielded \in [Readers -> Seq(Elements \cup {NoValue})]
  /\ abandoned \in Nat

Init ==
  /\ pc = [t \in Threads |-> "idle"]
  /\ queue = <<>>
  /\ size = 0
  /\ closed = FALSE
  /\ out = [r \in Readers |-> NoValue]
  /\ sent = [w \in Writers |-> 0]
  /\ pushed = <<>>
  /\ taken = <<>>
  /\ yielded = [r \in Readers |-> <<>>]
  /\ abandoned = 0

-----------------------------------------------------------------------------
(* operator<<                                                               *)

Room_OffByOne == size <= Cap
(* The predicate of waitBeforeWrite: it says nothing of closed().           *)
Room == size < Cap

WriteCheck(w) ==
  /\ pc[w] = "idle"
  /\ sent[w] < Quota
  /\ pc' = [pc EXCEPT ![w] = IF closed THEN "threw" ELSE "enter"]
  /\ UNCHANGED <<queue, size, closed, out, sent, pushed, taken, yielded, abandoned>>

Push(e) == queue' = Append(queue, e)

(* The section under the mutex, on entry and after each wake-up.            *)
WriteLocked(w) ==
  /\ pc[w] \in {"enter", "woken"}
  /\ \/ /\ Room
        /\ LET e == <<w, sent[w] + 1>> IN Push(e) /\ pushed' = Append(pushed, e)
        /\ size' = size + 1
        /\ sent' = [sent EXCEPT ![w] = @ + 1]
        /\ pc' = [pc EXCEPT ![w] = "notify"]
     \/ /\ ~Room
        /\ pc' = [pc EXCEPT ![w] = "wait"]
        /\ UNCHANGED <<queue, size, sent, pushed>>
  /\ UNCHANGED <<closed, out, taken, yielded, abandoned>>

WriteNotify_Dropped(w) ==
  /\ pc[w] = "notify"
  /\ pc' = [pc EXCEPT ![w] = "idle"]
  /\ UNCHANGED <<queue, size, closed, out, sent, pushed, taken, yielded, abandoned>>
WriteNotify(w) ==
  /\ pc[w] = "notify"
  /\ pc' \in NotifyOne([pc EXCEPT ![w] = "idle"])
  /\ UNCHANGED <<queue, size, closed, out, sent, pushed, taken, yielded, abandoned>>

(* close(): the store under the mutex, then notify_all without it.  Only a  *)
(* writer closes (the comment on the class).                                *)
CloseStore(w) ==
  /\ pc[w] = "idle"
  /\ closed' = TRUE
  /\ pc' = [pc EXCEPT ![w] = "closing"]
  /\ UNCHANGED <<queue, size, out, sent, pushed, taken, yielded, abandoned>>

CloseWakes(p) == {NotifyAll(p)}
CloseNotify(w) ==
  /\ pc[w] = "closing"
  /\ pc' \in CloseWakes([pc EXCEPT ![w] = "idle"])
  /\ UNCHANGED <<queue, size, closed, out, sent, pushed, taken, yielded, abandoned>>

-----------------------------------------------------------------------------
(* operator>> and the range-for loop around it                              *)

CanRead_IgnoresClose == queue # <<>>
(* The predicate of waitBeforeRead.                                         *)
CanRead == queue # <<>> \/ closed

LoopGoesOn_Always(r) == TRUE
(* A reader that calls >> itself does so when it likes; a range-for loop    *)
(* first tests it != end(), which is !closed().                             *)
LoopGoesOn(r) == r \in RangeReaders => ~closed
ReadCall(r) ==
  /\ pc[r] = "idle"
  /\ pc' = [pc EXCEPT ![r] = IF LoopGoesOn(r) THEN "call" ELSE "done"]
  /\ UNCHANGED <<queue, size, closed, out, sent, pushed, taken, yielded, abandoned>>

(* *it: after >> returns the loop body sees value_, whatever >> did to it.  *)
Yield(r, v) ==
  yielded' = IF r \in RangeReaders
             THEN [yielded EXCEPT ![r] = Append(@, v)] ELSE yielded

(* The unlocked test.  closed never goes back, so reading closed and then   *)
(* empty has the outcomes of reading both at the later moment.              *)
ReadCheck(r) ==
  /\ pc[r] = "call"
  /\ \/ /\ closed /\ queue = <<>>
        /\ pc' = [pc EXCEPT ![r] = "idle"]
        /\ Yield(r, out[r])
     \/ /\ ~(closed /\ queue = <<>>)
        /\ pc' = [pc EXCEPT ![r] = "enter"]
        /\ UNCHANGED yielded
  /\ UNCHANGED <<queue, size, closed, out, sent, pushed, taken, abandoned>>

Pop == queue' = Tail(queue)

(* What follows the wait: pop if there is anything, and return.             *)
ReadReturn(r) ==
  \/ /\ queue # <<>>
     /\ out' = [out EXCEPT ![r] = Head(queue)]
     /\ taken' = Append(taken, [by |-> r, val |-> Head(queue)])
     /\ Pop
     /\ Yield(r, Head(queue))
     /\ UNCHANGED abandoned
  \/ /\ queue = <<>>
     /\ abandoned' = abandoned + 1
     /\ Yield(r, out[r])
     /\ UNCHANGED <<queue, out, taken>>

(* wait(lock, pred): return at once if the predicate holds, else sleep.     *)
ReadWait(r) ==
  \/ CanRead /\ ReadReturn(r)
  \/ ~CanRead /\ UNCHANGED <<queue, out, taken, yielded, abandoned>>

AfterWait == IF CanRead THEN "idle" ELSE "wait"

Claim_Forgotten == size' = size
(* --size_: the reader claims a place before it has an element.             *)
Claim == size' = size - 1

ReadEnterWakes_None(p) == {p}
ReadEnterWakes(p) == NotifyOne(p)
ReadEnter(r) ==
  /\ pc[r] = "enter"
  /\ Claim
  /\ pc' \in {[p EXCEPT ![r] = AfterWait] : p \in ReadEnterWakes(pc)}
  /\ ReadWait(r)
  /\ UNCHANGED <<closed, sent, pushed>>

ReadWoken(r) ==
  /\ pc[r] = "woken"
  /\ pc' = [pc EXCEPT ![r] = AfterWait]
  /\ ReadWait(r)
  /\ UNCHANGED <<size, closed, sent, pushed>>

-----------------------------------------------------------------------------
(* The library may wake a sleeper without a notification.                   *)
SpuriousWake(t) ==
  /\ pc[t] = "wait"
  /\ pc' = [pc EXCEPT ![t] = "woken"]
  /\ UNCHANGED <<queue, size, closed, out, sent, pushed, taken, yielded, abandoned>>

WriterStep(w) == WriteLocked(w) \/ WriteNotify(w) \/ CloseNotify(w)
ReaderStep(r) == ReadCheck(r) \/ ReadEnter(r) \/ ReadWoken(r)

Next ==
  \/ \E w \in Writers : WriteCheck(w) \/ CloseStore(w) \/ WriterStep(w)
  \/ \E r \in Readers : ReadCall(r) \/ ReaderStep(r)
  \/ \E t \in Threads : SpuriousWake(t)

Spec == Init /\ [][Next]_vars

(* Fairness: a thread inside a call keeps being scheduled and gets the      *)
(* mutex, which is only ever held for a bounded section; a range-for loop   *)
(* goes round.  Nobody is obliged to write, to close, or to wake up         *)
(* spuriously.                                                              *)
FairSpec ==
  /\ Spec
  /\ \A w \in Writers : WF_vars(WriterStep(w))
  /\ \A r \in Readers : WF_vars(ReaderStep(r))
  /\ \A r \in RangeReaders : WF_vars(ReadCall(r))

-----------------------------------------------------------------------------
(* Properties                                                               *)

TakenVals == [i \in DOMAIN taken |-> taken[i].val]

(* Readers inside >> that have lowered size_ and not returned.              *)
Claims == {r \in Readers : pc[r] \in {"wait", "woken"}}

(* Nothing pushed is lost, duplicated or reordered: what has been popped,   *)
(* followed by what is queued, is what was pushed (lines 176, 192-193).     *)
FifoConservation == pushed = TakenVals \o queue

(* size_ is no count of elements: it is the queue less the readers inside   *)
(* >> less the calls that came back from a closed channel with nothing      *)
(* (++ on line 177, -- on line 188, never undone on the empty return).      *)
SizeAccounting == size = Len(queue) - Cardinality(Claims) - abandoned

(* The size_ counter, the shared condition variable and the unlocked tests   *)
(* together implement a bounded FIFO (all of << and >>, lines 166-196).     *)
Fifo == INSTANCE BoundedFifo WITH
          buf <- queue, waiting <- Cardinality(Claims), gone <- abandoned,
          shut <- closed
ImplementsFifo == Fifo!FifoSpec

(* Until the channel is closed it holds at most cap_ elements beyond those  *)
(* that readers already inside >> are going to take (lines 84, 156).        *)
CapacityBound == ~closed => Len(queue) <= Cap + Cardinality(Claims)

(* Every thread is outside a call or asleep: nothing will happen by itself. *)
Quiescent ==
  \A t \in Threads : pc[t] \in {"idle", "wait", "threw", "done"}

(* Lost wake-up, reader side: with all calls settled no reader sleeps next  *)
(* to an element or on a closed channel (lines 153, 179, 203).              *)
NoReaderLeftAsleep ==
  Quiescent => (CanRead => \A r \in Readers : pc[r] # "wait")

(* Lost wake-up, writer side: with all calls settled no writer sleeps while *)
(* there is room: the notify_one of >> (line 189) reached a writer.         *)
NoWriterLeftAsleep ==
  Quiescent => (Room => \A w \in Writers : pc[w] # "wait")

(* The elements a range-for body was given are those its reads popped, and  *)
(* at most one stale value_ more, which only a close can cause (39-47).     *)
TakenBy(r) == {i \in DOMAIN taken : taken[i].by = r}
AtMostOneStaleYield ==
  \A r \in RangeReaders :
    LET real == Cardinality(TakenBy(r))
    IN  /\ Len(yielded[r]) \in {real, real + 1}
        /\ ~closed => Len(yielded[r]) = real

(* close releases every reader blocked in >> (lines 153, 203).              *)
CloseReleasesReaders ==
  \A r \in Readers : closed ~> pc[r] \in {"idle", "done"}
=============================================================================
