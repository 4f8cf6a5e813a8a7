--------------------------- MODULE DispatchProofs ----------------------------
(***************************************************************************)
(* Theorems about what calls a user's function: ThreadPool, for every       *)
(* number of workers, submitting threads and tasks, and Signals, for any    *)
(* signals, objects and numbers of connections and of emits inside one      *)
(* another.                                                                 *)
(***************************************************************************)
EXTENDS ThreadPool, Signals, FiniteSetTheorems, SequenceTheorems, TLAPS

AllPC == WorkerPC \cup SubmitterPC

(* A notification moves threads from "wait" to "woken" and touches nobody   *)
(* else.                                                                    *)
Wakes(p, q) ==
  /\ DOMAIN q = DOMAIN p
  /\ \A t \in DOMAIN p : q[t] = p[t] \/ (p[t] = "wait" /\ q[t] = "woken")

(* notify_one wakes, and wakes somebody if anybody sleeps.                  *)
LEMMA OneWakes ==
  ASSUME NEW p \in [Threads -> AllPC], NEW q \in NotifyOne(p)
  PROVE  /\ q \in [Threads -> AllPC] /\ Wakes(p, q)
         /\ \/ Asleep(p) = {} /\ q = p
            \/ \E t \in Asleep(p) : t \in Threads /\ q = [p EXCEPT ![t] = "woken"]
<1>1. "woken" \in AllPC
  BY DEF AllPC, WorkerPC
<1>2. CASE Asleep(p) = {}
  BY <1>2 DEF NotifyOne, Wakes
<1>3. CASE Asleep(p) # {}
  <2>1. PICK t \in Asleep(p) : q = [p EXCEPT ![t] = "woken"]
    BY <1>3 DEF NotifyOne
  <2> QED
    BY <1>1, <2>1 DEF Wakes, Asleep
<1> QED
  BY <1>2, <1>3

(* notify_all wakes everybody that sleeps.                                  *)
LEMMA AllWakes ==
  ASSUME NEW p \in [Threads -> AllPC]
  PROVE  /\ NotifyAll(p) \in [Threads -> AllPC] /\ Wakes(p, NotifyAll(p))
         /\ Asleep(NotifyAll(p)) = {}
<1>1. "woken" \in AllPC
  BY DEF AllPC, WorkerPC
<1> QED
  BY <1>1 DEF NotifyAll, Wakes, Asleep

-----------------------------------------------------------------------------
(* How many of the threads D are at one of the places A.                    *)
Count(D, A, p) == Cardinality({t \in D : p[t] \in A})

LEMMA CountIsNat ==
  ASSUME NEW D, IsFiniteSet(D), NEW A, NEW p
  PROVE  IsFiniteSet({t \in D : p[t] \in A}) /\ Count(D, A, p) \in Nat
<1>1. {t \in D : p[t] \in A} \in SUBSET D
  OBVIOUS
<1> QED
  BY <1>1, FS_Subset, FS_CardinalityType DEF Count

(* One thread moves: the count follows where it was and where it is.        *)
CountMoves(D, A, p, t, c, q) ==
  /\ t \notin D => Count(D, A, q) = Count(D, A, p)
  /\ (p[t] \in A <=> c \in A) => Count(D, A, q) = Count(D, A, p)
  /\ t \in D /\ p[t] \in A /\ c \notin A => Count(D, A, q) = Count(D, A, p) - 1
  /\ t \in D /\ p[t] \notin A /\ c \in A => Count(D, A, q) = Count(D, A, p) + 1

LEMMA CountMove ==
  ASSUME NEW D, IsFiniteSet(D), NEW A, NEW T, NEW S, D \subseteq T,
         NEW p \in [T -> S], NEW t \in T, NEW c
  PROVE  CountMoves(D, A, p, t, c, [p EXCEPT ![t] = c])
<1> DEFINE q == [p EXCEPT ![t] = c]
           P == {x \in D : p[x] \in A}
           Q == {x \in D : q[x] \in A}
<1>0. IsFiniteSet(P) /\ Count(D, A, p) = Cardinality(P) /\ Count(D, A, q) = Cardinality(Q)
  BY CountIsNat DEF Count
<1>1. q[t] = c /\ \A x \in T : x # t => q[x] = p[x]
  OBVIOUS
<1>2. ASSUME t \notin D \/ (p[t] \in A <=> c \in A) PROVE Q = P
  BY <1>1, <1>2
<1>3. ASSUME t \in D, p[t] \in A, c \notin A PROVE Q = P \ {t} /\ t \in P
  BY <1>1, <1>3
<1>4. ASSUME t \in D, p[t] \notin A, c \in A PROVE Q = P \cup {t} /\ t \notin P
  BY <1>1, <1>4
<1> HIDE DEF P, Q, q
<1>5. /\ t \in P => Cardinality(P \ {t}) = Cardinality(P) - 1
      /\ t \notin P => Cardinality(P \cup {t}) = Cardinality(P) + 1
  BY <1>0, FS_AddElement, FS_RemoveElement
<1>6. CountMoves(D, A, p, t, c, q)
  BY <1>0, <1>2, <1>3, <1>4, <1>5 DEF CountMoves
<1> QED
  BY <1>6 DEF q

-----------------------------------------------------------------------------
PcOK(p) ==
  /\ p \in [Threads -> AllPC]
  /\ \A w \in Workers : p[w] \in WorkerPC
  /\ \A s \in Submitters : p[s] \in SubmitterPC

LEMMA WakesKeepsPcOK ==
  ASSUME NEW p, PcOK(p), NEW q \in [Threads -> AllPC], Wakes(p, q)
  PROVE  PcOK(q)
BY DEF PcOK, Wakes, WorkerPC, SubmitterPC, Threads

LEMMA WorkerMovePcOK ==
  ASSUME NEW p, PcOK(p), NEW w \in Workers, NEW c \in WorkerPC
  PROVE  PcOK([p EXCEPT ![w] = c])
BY PoolAssumption DEF PcOK, AllPC, Threads, PoolAssumption

LEMMA SubmitterMovePcOK ==
  ASSUME NEW p, PcOK(p), NEW s \in Submitters, NEW c \in SubmitterPC
  PROVE  PcOK([p EXCEPT ![s] = c])
BY PoolAssumption DEF PcOK, AllPC, Threads, PoolAssumption

(* What an enqueue does under the mutex, whoever calls it.                  *)
LEMMA EnqueueType ==
  ASSUME TypeOK, NEW c, NEW t \in Tasks, NEW from, NEW to, Enqueue(c, t, from, to)
  PROVE  /\ tasks' \in Seq(Tasks)
         /\ stage' \in [Tasks -> {"new", "queued", "running", "done", "refused"}]
         /\ UNCHANGED <<task, stop, dtor>>
         /\ pc' = pc \/ pc' = [pc EXCEPT ![c] = to]
<1>1. tasks \in Seq(Tasks)
  BY DEF TypeOK
<1>2. Append(tasks, t) \in Seq(Tasks)
  BY <1>1, AppendProperties
<1> QED
  BY <1>1, <1>2 DEF Enqueue, Emplace, TypeOK

(* The three things a worker does under the mutex.                          *)
LEMMA LockedCases ==
  ASSUME TypeOK, NEW w \in Workers, WorkerLocked(w)
  PROVE  /\ pc[w] \in {"test", "woken"} /\ UNCHANGED <<stop, dtor>>
         /\ \/ /\ ~stop /\ tasks = <<>> /\ pc' = [pc EXCEPT ![w] = "wait"]
               /\ UNCHANGED <<tasks, task, stage>>
            \/ /\ stop /\ tasks = <<>> /\ pc' = [pc EXCEPT ![w] = "exit"]
               /\ UNCHANGED <<tasks, task, stage>>
            \/ /\ tasks # <<>> /\ pc' = [pc EXCEPT ![w] = "run"]
               /\ Head(tasks) \in Tasks
               /\ tasks' = Tail(tasks) /\ tasks' \in Seq(Tasks)
               /\ task' = [task EXCEPT ![w] = Head(tasks)]
               /\ stage' = [stage EXCEPT ![Head(tasks)] = "running"]
<1>0. tasks \in Seq(Tasks)
  BY DEF TypeOK
<1>1. CASE tasks # <<>>
  <2>1. Head(tasks) \in Tasks /\ Tail(tasks) \in Seq(Tasks)
    BY <1>0, <1>1, HeadTailProperties
  <2> QED
    BY <1>1, <2>1 DEF WorkerLocked, HasWork, MayExit, Pop, NextTask
<1>2. CASE tasks = <<>>
  BY <1>2 DEF WorkerLocked, HasWork, MayExit
<1> QED
  BY <1>1, <1>2

LEMMA PcStep ==
  ASSUME TypeOK, [Next]_vars
  PROVE  PcOK(pc')
<1>0. PcOK(pc) /\ pc \in [Threads -> AllPC]
  BY DEF TypeOK, PcOK, AllPC
<1>1. ASSUME NEW s \in Submitters, NEW t \in Tasks, Submit(s, t) PROVE PcOK(pc')
  <2>1. "notify" \in SubmitterPC
    BY DEF SubmitterPC
  <2>2. pc' = pc \/ pc' = [pc EXCEPT ![s] = "notify"]
    BY <1>1, EnqueueType DEF Submit
  <2> QED
    BY <1>0, <2>1, <2>2, SubmitterMovePcOK
<1>2. ASSUME NEW s \in Submitters, SubmitNotify(s) PROVE PcOK(pc')
  <2>1. "idle" \in SubmitterPC
    BY DEF SubmitterPC
  <2>2. PcOK([pc EXCEPT ![s] = "idle"])
    BY <1>0, <2>1, SubmitterMovePcOK
  <2>3. pc' \in [Threads -> AllPC] /\ Wakes([pc EXCEPT ![s] = "idle"], pc')
    BY <1>2, <2>2, OneWakes DEF SubmitNotify, EnqueueNotify, EnqueueWakes, PcOK
  <2> QED
    BY <2>2, <2>3, WakesKeepsPcOK
<1>3. ASSUME NEW w \in Workers, NEW t \in Tasks, NestedSubmit(w, t) PROVE PcOK(pc')
  <2>1. "runnotify" \in WorkerPC
    BY DEF WorkerPC
  <2>2. pc' = pc \/ pc' = [pc EXCEPT ![w] = "runnotify"]
    BY <1>3, EnqueueType DEF NestedSubmit
  <2> QED
    BY <1>0, <2>1, <2>2, WorkerMovePcOK
<1>4. ASSUME NEW w \in Workers, NestedNotify(w) PROVE PcOK(pc')
  <2>1. "run" \in WorkerPC
    BY DEF WorkerPC
  <2>2. PcOK([pc EXCEPT ![w] = "run"])
    BY <1>0, <2>1, WorkerMovePcOK
  <2>3. pc' \in [Threads -> AllPC] /\ Wakes([pc EXCEPT ![w] = "run"], pc')
    BY <1>4, <2>2, OneWakes DEF NestedNotify, EnqueueNotify, EnqueueWakes, PcOK
  <2> QED
    BY <2>2, <2>3, WakesKeepsPcOK
<1>5. ASSUME NEW w \in Workers, WorkerLocked(w) PROVE PcOK(pc')
  <2>1. {"wait", "exit", "run"} \subseteq WorkerPC
    BY DEF WorkerPC
  <2>2. PICK c \in {"wait", "exit", "run"} : pc' = [pc EXCEPT ![w] = c]
    BY <1>5, LockedCases
  <2>3. c \in WorkerPC
    BY <2>1, <2>2
  <2> QED
    BY <1>0, <2>2, <2>3, WorkerMovePcOK
<1>6. ASSUME NEW w \in Workers, TaskReturns(w) \/ SpuriousWake(w) PROVE PcOK(pc')
  <2>1. {"test", "woken"} \subseteq WorkerPC
    BY DEF WorkerPC
  <2>2. PICK c \in {"test", "woken"} : pc' = [pc EXCEPT ![w] = c]
    BY <1>6 DEF TaskReturns, SpuriousWake
  <2>3. c \in WorkerPC
    BY <2>1, <2>2
  <2> QED
    BY <1>0, <2>2, <2>3, WorkerMovePcOK
<1>7. ASSUME DestroyNotify PROVE PcOK(pc')
  BY <1>0, <1>7, AllWakes, WakesKeepsPcOK DEF DestroyNotify, DestroyWakes
<1>8. CASE DestroyStop \/ DestroyJoin \/ UNCHANGED vars
  BY <1>0, <1>8 DEF DestroyStop, DestroyJoin, vars
<1> QED
  BY <1>1, <1>2, <1>3, <1>4, <1>5, <1>6, <1>7, <1>8 DEF Next, WorkerStep, DestroyStep

LEMMA TypeStep == TypeOK /\ [Next]_vars => TypeOK'
<1> SUFFICES ASSUME TypeOK, [Next]_vars PROVE TypeOK'
  OBVIOUS
<1>0. PcOK(pc')
  BY PcStep
<1>1. ASSUME NEW c, NEW t \in Tasks, NEW from, NEW to, Enqueue(c, t, from, to) PROVE TypeOK'
  BY <1>0, <1>1, EnqueueType DEF TypeOK, PcOK, AllPC
<1>2. ASSUME NEW c, NEW from, NEW to, EnqueueNotify(c, from, to) PROVE TypeOK'
  BY <1>0, <1>2 DEF TypeOK, PcOK, AllPC, EnqueueNotify
<1>3. ASSUME NEW w \in Workers, WorkerLocked(w) PROVE TypeOK'
  BY <1>0, <1>3, LockedCases DEF TypeOK, PcOK, AllPC
<1>4. ASSUME NEW w \in Workers, TaskReturns(w) \/ SpuriousWake(w) PROVE TypeOK'
  BY <1>0, <1>4 DEF TypeOK, PcOK, AllPC, TaskReturns, SpuriousWake
<1>5. ASSUME DestroyStop \/ DestroyStep PROVE TypeOK'
  BY <1>0, <1>5 DEF TypeOK, PcOK, AllPC, DestroyStop, DestroyStep, DestroyNotify, DestroyJoin
<1>6. CASE UNCHANGED vars
  BY <1>6 DEF TypeOK, vars
<1> QED
  BY <1>1, <1>2, <1>3, <1>4, <1>5, <1>6
     DEF Next, WorkerStep, Submit, NestedSubmit, SubmitNotify, NestedNotify

LEMMA InitType ==
  ASSUME Init
  PROVE  TypeOK
<1>1. /\ pc \in [Threads -> WorkerPC \cup SubmitterPC]
      /\ \A w \in Workers : pc[w] \in WorkerPC
      /\ \A s \in Submitters : pc[s] \in SubmitterPC
  BY PoolAssumption DEF Init, WorkerPC, SubmitterPC, Threads, PoolAssumption
<1>2. tasks \in Seq(Tasks) /\ task \in [Workers -> Tasks \cup {NoTask}]
  BY DEF Init
<1>3. stop \in BOOLEAN
  BY DEF Init
<1>4. /\ dtor \in {"live", "notify", "join", "done"}
      /\ stage \in [Tasks -> {"new", "queued", "running", "done", "refused"}]
  BY DEF Init
<1> QED
  BY <1>1, <1>2, <1>3, <1>4 DEF TypeOK

(* The pool's state has its type in every reachable state (pool.hpp:24-32). *)
THEOREM TypeCorrect == Spec => []TypeOK
BY InitType, TypeStep, PTL DEF Spec

-----------------------------------------------------------------------------
(* No lost wake-up.  The inductive step is arithmetic over two counts: the  *)
(* workers on their way to the queue and the notifications still to come.   *)
WayPC == {"test", "woken"}
NotePC == {"notify", "runnotify"}
Way(p) == Count(Workers, WayPC, p)
Note(p) == Count(Threads, NotePC, p)
Covered(p, q) == Asleep(p) # {} => Len(q) <= Way(p) + Note(p)

LEMMA CoveredIsProperty == (NoLostWakeup <=> Covered(pc, tasks))
BY DEF NoLostWakeup, Covered, Way, Note, WayPC, NotePC, Count, OnTheirWay, Notifying

LEMMA ThreadsFinite == IsFiniteSet(Threads) /\ IsFiniteSet(Workers) /\ Workers \subseteq Threads
BY PoolAssumption, FS_Union DEF Threads, PoolAssumption

LEMMA CountsAreNat == \A p : Way(p) \in Nat /\ Note(p) \in Nat
BY ThreadsFinite, CountIsNat DEF Way, Note

LEMMA Move ==
  ASSUME NEW p \in [Threads -> AllPC], NEW t \in Threads, NEW c
  PROVE  LET q == [p EXCEPT ![t] = c]
         IN  /\ (t \notin Workers \/ (p[t] \in WayPC <=> c \in WayPC)) => Way(q) = Way(p)
             /\ t \in Workers /\ p[t] \in WayPC /\ c \notin WayPC => Way(q) = Way(p) - 1
             /\ t \in Workers /\ p[t] \notin WayPC /\ c \in WayPC => Way(q) = Way(p) + 1
             /\ (p[t] \in NotePC <=> c \in NotePC) => Note(q) = Note(p)
             /\ p[t] \in NotePC /\ c \notin NotePC => Note(q) = Note(p) - 1
             /\ p[t] \notin NotePC /\ c \in NotePC => Note(q) = Note(p) + 1
             /\ c # "wait" => Asleep(q) \subseteq Asleep(p)
<1> DEFINE q == [p EXCEPT ![t] = c]
<1>1. CountMoves(Workers, WayPC, p, t, c, q) /\ CountMoves(Threads, NotePC, p, t, c, q)
  BY ThreadsFinite, CountMove
<1>2. c # "wait" => Asleep(q) \subseteq Asleep(p)
  BY DEF Asleep
<1> HIDE DEF q
<1>3. /\ (t \notin Workers \/ (p[t] \in WayPC <=> c \in WayPC)) => Way(q) = Way(p)
      /\ t \in Workers /\ p[t] \in WayPC /\ c \notin WayPC => Way(q) = Way(p) - 1
      /\ t \in Workers /\ p[t] \notin WayPC /\ c \in WayPC => Way(q) = Way(p) + 1
  BY <1>1 DEF CountMoves, Way
<1>4. /\ (p[t] \in NotePC <=> c \in NotePC) => Note(q) = Note(p)
      /\ p[t] \in NotePC /\ c \notin NotePC => Note(q) = Note(p) - 1
      /\ p[t] \notin NotePC /\ c \in NotePC => Note(q) = Note(p) + 1
  BY <1>1 DEF CountMoves, Note
<1> QED
  BY <1>2, <1>3, <1>4 DEF q

(* A sleeping worker is woken.                                              *)
LEMMA WakeMove ==
  ASSUME NEW p \in [Threads -> AllPC], NEW t \in Workers, p[t] \notin WayPC \cup NotePC
  PROVE  /\ Way([p EXCEPT ![t] = "woken"]) = Way(p) + 1
         /\ Note([p EXCEPT ![t] = "woken"]) = Note(p)
<1> DEFINE q == [p EXCEPT ![t] = "woken"]
<1>1. t \in Threads /\ "woken" \in WayPC /\ "woken" \notin NotePC
  BY DEF Threads, WayPC, NotePC
<1>2. /\ CountMoves(Workers, WayPC, p, t, "woken", q)
      /\ CountMoves(Threads, NotePC, p, t, "woken", q)
  BY <1>1, ThreadsFinite, CountMove
<1> HIDE DEF q
<1>3. Way(q) = Way(p) + 1 /\ Note(q) = Note(p)
  BY <1>1, <1>2 DEF CountMoves, Way, Note
<1> QED
  BY <1>3 DEF q

(* An enqueue adds a task and a notification still to come; the             *)
(* notification is exchanged for a worker on its way, or finds nobody       *)
(* asleep.                                                                  *)
LEMMA EnqueueCovered ==
  ASSUME TypeOK, Covered(pc, tasks), NEW c \in Threads, NEW t \in Tasks, NEW from, NEW to,
         from \notin NotePC \cup WayPC, to \in NotePC, Enqueue(c, t, from, to)
  PROVE  Covered(pc', tasks')
<1>0. pc \in [Threads -> AllPC] /\ tasks \in Seq(Tasks) /\ Len(tasks) \in Nat
      /\ Way(pc) \in Nat /\ Note(pc) \in Nat
  BY CountsAreNat DEF TypeOK, AllPC
<1>1. CASE tasks' = Append(tasks, t) /\ pc' = [pc EXCEPT ![c] = to]
  <2>1. Len(tasks') = Len(tasks) + 1
    BY <1>0, <1>1, AppendProperties
  <2>2. pc[c] = from /\ to \notin WayPC /\ to # "wait"
    BY DEF Enqueue, Emplace, NotePC, WayPC
  <2>3. Way(pc') = Way(pc) /\ Note(pc') = Note(pc) + 1 /\ Asleep(pc') \subseteq Asleep(pc)
    BY <1>0, <1>1, <2>2, Move
  <2> QED
    BY <1>0, <2>1, <2>3 DEF Covered
<1>2. CASE UNCHANGED <<tasks, pc>>
  BY <1>2
<1> QED
  BY <1>1, <1>2 DEF Enqueue, Emplace

LEMMA NotifyCovered ==
  ASSUME TypeOK, Covered(pc, tasks), NEW c \in Threads, NEW from, NEW to \in AllPC,
         from \in NotePC, to \notin NotePC \cup WayPC, to # "wait",
         EnqueueNotify(c, from, to)
  PROVE  Covered(pc', tasks')
<1> DEFINE p == [pc EXCEPT ![c] = to]
<1>0. pc \in [Threads -> AllPC] /\ Len(tasks) \in Nat /\ Way(pc) \in Nat /\ Note(pc) \in Nat
  BY CountsAreNat DEF TypeOK, AllPC
<1>1. p \in [Threads -> AllPC] /\ pc[c] = from /\ tasks' = tasks /\ pc' \in NotifyOne(p)
  BY <1>0 DEF EnqueueNotify, EnqueueWakes
<1>2. pc[c] \notin WayPC
  BY <1>1 DEF NotePC, WayPC
<1>3. Way(p) = Way(pc) /\ Note(p) = Note(pc) - 1 /\ Asleep(p) \subseteq Asleep(pc)
  BY <1>0, <1>1, <1>2, Move
<1>4. \A s \in Submitters : p[s] # "wait"
  <2>1. \A s \in Submitters : pc[s] # "wait"
    BY DEF TypeOK, SubmitterPC
  <2>2. \A s \in Submitters : p[s] = to \/ p[s] = pc[s]
    BY <1>0 DEF Threads
  <2> QED
    BY <2>1, <2>2
<1> HIDE DEF p
<1>5. CASE Asleep(p) = {} /\ pc' = p
  BY <1>5 DEF Covered
<1>6. CASE \E t \in Asleep(p) : t \in Threads /\ pc' = [p EXCEPT ![t] = "woken"]
  <2>1. PICK t \in Asleep(p) : t \in Threads /\ pc' = [p EXCEPT ![t] = "woken"]
    BY <1>6
  <2>2. p[t] = "wait" /\ t \in Workers
    BY <1>1, <1>4, <2>1 DEF Asleep, Threads
  <2>3. p[t] \notin WayPC \cup NotePC /\ "woken" \in WayPC /\ "woken" \notin NotePC
    BY <2>2 DEF WayPC, NotePC
  <2>4. Way(pc') = Way(p) + 1 /\ Note(pc') = Note(p)
    <3>1. Way([p EXCEPT ![t] = "woken"]) = Way(p) + 1 /\ Note([p EXCEPT ![t] = "woken"]) = Note(p)
      BY <1>1, <2>2, <2>3, WakeMove
    <3> QED
      BY <2>1, <3>1
  <2> QED
    BY <1>0, <1>1, <1>3, <2>1, <2>4 DEF Covered
<1> QED
  BY <1>1, <1>5, <1>6, OneWakes

LEMMA LockedCovered ==
  ASSUME TypeOK, Covered(pc, tasks), NEW w \in Workers, WorkerLocked(w)
  PROVE  Covered(pc', tasks')
<1>0. /\ pc \in [Threads -> AllPC] /\ tasks \in Seq(Tasks) /\ Len(tasks) \in Nat
      /\ Way(pc) \in Nat /\ Note(pc) \in Nat /\ w \in Threads
      /\ Way(pc') \in Nat /\ Note(pc') \in Nat
  BY CountsAreNat DEF TypeOK, AllPC, Threads
<1>1. CASE tasks = <<>> /\ tasks' = tasks
  <2>1. Len(tasks') = 0
    BY <1>1
  <2> QED
    BY <1>0, <2>1 DEF Covered
<1>2. CASE tasks # <<>> /\ tasks' = Tail(tasks) /\ pc' = [pc EXCEPT ![w] = "run"]
  <2>1. Len(tasks') = Len(tasks) - 1
    BY <1>0, <1>2, HeadTailProperties
  <2>2. /\ pc[w] \in WayPC /\ pc[w] \notin NotePC
        /\ "run" \notin WayPC /\ "run" \notin NotePC
    BY DEF WorkerLocked, WayPC, NotePC
  <2>3. Way(pc') = Way(pc) - 1 /\ Note(pc') = Note(pc) /\ Asleep(pc') \subseteq Asleep(pc)
    BY <1>0, <1>2, <2>2, Move
  <2> QED
    BY <1>0, <2>1, <2>3 DEF Covered
<1> QED
  BY <1>1, <1>2, LockedCases

LEMMA CoveredStep ==
  ASSUME TypeOK, Covered(pc, tasks), [Next]_vars
  PROVE  Covered(pc', tasks')
<1>0. /\ pc \in [Threads -> AllPC] /\ Len(tasks) \in Nat
      /\ Way(pc) \in Nat /\ Note(pc) \in Nat
      /\ Workers \subseteq Threads /\ Submitters \subseteq Threads
  BY CountsAreNat DEF TypeOK, AllPC, Threads
<1>a. /\ "idle" \notin NotePC \cup WayPC /\ "idle" \in AllPC
      /\ "run" \notin NotePC \cup WayPC /\ "run" \in AllPC
      /\ "notify" \in NotePC /\ "runnotify" \in NotePC
  BY DEF NotePC, WayPC, AllPC, WorkerPC, SubmitterPC
<1>1. ASSUME NEW s \in Submitters, NEW t \in Tasks, Submit(s, t) PROVE Covered(pc', tasks')
  BY <1>0, <1>a, <1>1, EnqueueCovered DEF Submit
<1>2. ASSUME NEW w \in Workers, NEW t \in Tasks, NestedSubmit(w, t) PROVE Covered(pc', tasks')
  BY <1>0, <1>a, <1>2, EnqueueCovered DEF NestedSubmit
<1>3. ASSUME NEW s \in Submitters, SubmitNotify(s) PROVE Covered(pc', tasks')
  BY <1>0, <1>a, <1>3, NotifyCovered DEF SubmitNotify
<1>4. ASSUME NEW w \in Workers, NestedNotify(w) PROVE Covered(pc', tasks')
  BY <1>0, <1>a, <1>4, NotifyCovered DEF NestedNotify
<1>5. ASSUME NEW w \in Workers, WorkerLocked(w) PROVE Covered(pc', tasks')
  BY <1>5, LockedCovered
<1>6. ASSUME NEW w \in Workers, TaskReturns(w) \/ SpuriousWake(w) PROVE Covered(pc', tasks')
  <2>1. PICK c \in {"test", "woken"} : pc' = [pc EXCEPT ![w] = c]
    BY <1>6 DEF TaskReturns, SpuriousWake
  <2>2. /\ c \in WayPC /\ c \notin NotePC /\ c # "wait" /\ tasks' = tasks
        /\ pc[w] \notin WayPC /\ pc[w] \notin NotePC
    BY <1>6, <2>1 DEF TaskReturns, SpuriousWake, WayPC, NotePC
  <2>3. Way(pc') = Way(pc) + 1 /\ Note(pc') = Note(pc) /\ Asleep(pc') \subseteq Asleep(pc)
    BY <1>0, <2>1, <2>2, Move
  <2> QED
    BY <1>0, <2>2, <2>3 DEF Covered
<1>7. ASSUME DestroyNotify PROVE Covered(pc', tasks')
  BY <1>0, <1>7, AllWakes DEF DestroyNotify, DestroyWakes, Covered
<1>8. CASE DestroyStop \/ DestroyJoin \/ UNCHANGED vars
  <2>1. pc' = pc /\ tasks' = tasks
    BY <1>8 DEF DestroyStop, DestroyJoin, vars
  <2> QED
    BY <2>1
<1> QED
  BY <1>1, <1>2, <1>3, <1>4, <1>5, <1>6, <1>7, <1>8 DEF Next, WorkerStep, DestroyStep

(* While a worker sleeps every queued task has a worker on its way or a     *)
(* notification to come: calling notify_one without the mutex (line 76)     *)
(* loses nothing, for any number of workers, callers and tasks.             *)
THEOREM WakeUps == Spec => []NoLostWakeup
<1>1. Init => NoLostWakeup
  BY DEF Init, NoLostWakeup, Asleep
<1>2. TypeOK /\ NoLostWakeup /\ [Next]_vars => NoLostWakeup'
  <2> SUFFICES ASSUME TypeOK, NoLostWakeup, [Next]_vars PROVE NoLostWakeup'
    OBVIOUS
  <2>1. Covered(pc', tasks')
    BY CoveredIsProperty, CoveredStep
  <2>2. NoLostWakeup' <=> Covered(pc', tasks')
    BY DEF NoLostWakeup, Covered, Way, Note, WayPC, NotePC, Count, OnTheirWay, Notifying
  <2> QED
    BY <2>1, <2>2
<1> QED
  BY <1>1, <1>2, TypeCorrect, PTL DEF Spec

-----------------------------------------------------------------------------
(* The inductive invariant behind the executor: a task's stage says where   *)
(* it is (in the queue once, or in one worker's hands), a worker leaves     *)
(* only a stopped and empty pool, and stop is up once the destructor is on. *)
Busy == {w \in Workers : pc[w] \in {"run", "runnotify"}}

QueueStages ==
  /\ \A i \in 1..Len(tasks) : stage[tasks[i]] = "queued"
  /\ \A i, j \in 1..Len(tasks) : tasks[i] = tasks[j] => i = j
  /\ \A t \in Tasks : stage[t] = "queued" => \E i \in 1..Len(tasks) : tasks[i] = t

WorkerStages ==
  /\ \A w \in Busy : task[w] \in Tasks /\ stage[task[w]] = "running"
  /\ \A v, w \in Busy : task[v] = task[w] => v = w
  /\ \A t \in Tasks : stage[t] = "running" => \E w \in Busy : task[w] = t

Flags ==
  /\ dtor # "live" => stop
  /\ \A w \in Workers : pc[w] = "exit" => stop /\ tasks = <<>>
  /\ dtor = "done" => \A w \in Workers : pc[w] = "exit"

StageInv == QueueStages /\ WorkerStages /\ Flags

LEMMA QueueAppend ==
  ASSUME tasks \in Seq(Tasks), QueueStages, NEW t \in Tasks, stage[t] = "new",
         stage \in [Tasks -> {"new", "queued", "running", "done", "refused"}],
         tasks' = Append(tasks, t), stage' = [stage EXCEPT ![t] = "queued"]
  PROVE  QueueStages'
<1> DEFINE n == Len(tasks)
<1>1. /\ n \in Nat /\ Len(tasks') = n + 1 /\ tasks'[n + 1] = t
      /\ \A i \in 1..n : tasks'[i] = tasks[i]
  BY AppendProperties, LenProperties
<1>2. \A i \in 1..n : tasks[i] \in Tasks /\ tasks[i] # t
  BY ElementOfSeq DEF QueueStages
<1>3. \A i \in 1..(n + 1) : i \in 1..n \/ i = n + 1
  BY <1>1
<1>4. n + 1 \in 1..(n + 1) /\ \A i \in 1..n : i \in 1..(n + 1)
  BY <1>1
<1>5. \A i \in 1..(n + 1) : stage'[tasks'[i]] = "queued"
  BY <1>1, <1>2, <1>3 DEF QueueStages
<1>6. \A i, j \in 1..(n + 1) : tasks'[i] = tasks'[j] => i = j
  BY <1>1, <1>2, <1>3 DEF QueueStages
<1>7. \A u \in Tasks : stage'[u] = "queued" => \E i \in 1..(n + 1) : tasks'[i] = u
  BY <1>1, <1>4 DEF QueueStages
<1> HIDE DEF n
<1> QED
  BY <1>1, <1>5, <1>6, <1>7 DEF QueueStages

LEMMA QueueTail ==
  ASSUME tasks \in Seq(Tasks), tasks # <<>>, QueueStages,
         stage \in [Tasks -> {"new", "queued", "running", "done", "refused"}],
         tasks' = Tail(tasks), stage' = [stage EXCEPT ![Head(tasks)] = "running"]
  PROVE  QueueStages'
<1> DEFINE n == Len(tasks)
           h == Head(tasks)
<1>1. /\ n \in Nat \ {0} /\ h = tasks[1] /\ Len(tasks') = n - 1
      /\ \A i \in 1..(n - 1) : tasks'[i] = tasks[i + 1]
  BY HeadTailProperties, EmptySeq
<1>2. \A i \in 1..(n - 1) : i + 1 \in 1..n /\ i + 1 # 1
  BY <1>1
<1>3. \A i \in 1..n : tasks[i] \in Tasks
  BY ElementOfSeq
<1>4. 1 \in 1..n
  BY <1>1
<1>5. \A i \in 2..n : tasks[i] # h
  BY <1>1, <1>4 DEF QueueStages
<1>6. \A i \in 1..(n - 1) : stage'[tasks'[i]] = "queued"
  <2> TAKE i \in 1..(n - 1)
  <2>1. i + 1 \in 2..n /\ i + 1 \in 1..n /\ tasks'[i] = tasks[i + 1]
    BY <1>1
  <2>2. tasks[i + 1] \in Tasks /\ tasks[i + 1] # h /\ stage[tasks[i + 1]] = "queued"
    BY <1>3, <1>5, <2>1 DEF QueueStages
  <2> QED
    BY <2>1, <2>2
<1>7. \A i, j \in 1..(n - 1) : tasks'[i] = tasks'[j] => i = j
  <2> TAKE i, j \in 1..(n - 1)
  <2>1. /\ i + 1 \in 1..n /\ tasks'[i] = tasks[i + 1]
        /\ j + 1 \in 1..n /\ tasks'[j] = tasks[j + 1]
    BY <1>1
  <2>2. tasks[i + 1] = tasks[j + 1] => i + 1 = j + 1
    BY <2>1 DEF QueueStages
  <2> QED
    BY <2>1, <2>2
<1>8. \A u \in Tasks : stage'[u] = "queued" => \E i \in 1..(n - 1) : tasks'[i] = u
  <2> SUFFICES ASSUME NEW u \in Tasks, stage'[u] = "queued"
               PROVE  \E i \in 1..(n - 1) : tasks'[i] = u
    OBVIOUS
  <2>1. u # h /\ stage[u] = "queued"
    BY <1>1, <1>3, <1>4
  <2>2. PICK i \in 1..n : tasks[i] = u
    BY <2>1 DEF QueueStages
  <2>3. i # 1
    BY <1>1, <2>1, <2>2
  <2>4. i - 1 \in 1..(n - 1) /\ tasks'[i - 1] = u
    BY <1>1, <2>2, <2>3
  <2> QED
    BY <2>4
<1> HIDE DEF n, h
<1> QED
  BY <1>1, <1>6, <1>7, <1>8 DEF QueueStages

Stages == {"new", "queued", "running", "done", "refused"}

LEMMA QueueKeep ==
  ASSUME tasks \in Seq(Tasks), QueueStages, NEW t \in Tasks, NEW c \in Stages \ {"queued"},
         stage \in [Tasks -> Stages], stage[t] # "queued",
         tasks' = tasks, stage' = [stage EXCEPT ![t] = c]
  PROVE  QueueStages'
<1>1. \A i \in 1..Len(tasks) : tasks[i] \in Tasks
  BY ElementOfSeq
<1>2. \A i \in 1..Len(tasks) : stage'[tasks[i]] = "queued"
  BY <1>1 DEF QueueStages
<1>3. \A u \in Tasks : stage'[u] = "queued" => stage[u] = "queued"
  OBVIOUS
<1> QED
  BY <1>2, <1>3 DEF QueueStages

LEMMA WorkersKeep ==
  ASSUME WorkerStages, Busy' = Busy, task' = task, stage \in [Tasks -> Stages],
         NEW t \in Tasks, NEW c \in Stages \ {"running"}, stage[t] # "running",
         stage' = [stage EXCEPT ![t] = c]
  PROVE  WorkerStages'
<1>1. \A u \in Tasks : stage'[u] = "running" <=> stage[u] = "running"
  OBVIOUS
<1>2. /\ \A w \in Busy' : task'[w] \in Tasks /\ stage'[task'[w]] = "running"
      /\ \A v, w \in Busy' : task'[v] = task'[w] => v = w
      /\ \A u \in Tasks : stage'[u] = "running" => \E w \in Busy' : task'[w] = u
  BY <1>1 DEF WorkerStages
<1> QED
  BY <1>2 DEF WorkerStages

LEMMA WorkerTakes ==
  ASSUME WorkerStages, task \in [Workers -> Tasks \cup {NoTask}],
         stage \in [Tasks -> Stages],
         NEW w \in Workers, w \notin Busy, Busy' = Busy \cup {w},
         NEW t \in Tasks, stage[t] = "queued",
         task' = [task EXCEPT ![w] = t], stage' = [stage EXCEPT ![t] = "running"]
  PROVE  WorkerStages'
<1>0. Busy \subseteq Workers
  BY DEF Busy
<1>1. task'[w] = t /\ \A v \in Busy : task'[v] = task[v] /\ task[v] # t
  BY <1>0 DEF WorkerStages
<1>2. stage'[t] = "running" /\ \A u \in Tasks : u # t => stage'[u] = stage[u]
  OBVIOUS
<1>3. \A v \in Busy' : task'[v] \in Tasks /\ stage'[task'[v]] = "running"
  BY <1>1, <1>2 DEF WorkerStages
<1>4. \A u, v \in Busy' : task'[u] = task'[v] => u = v
  BY <1>1 DEF WorkerStages
<1>5. \A u \in Tasks : stage'[u] = "running" => \E v \in Busy' : task'[v] = u
  BY <1>1, <1>2 DEF WorkerStages
<1> QED
  BY <1>3, <1>4, <1>5 DEF WorkerStages

LEMMA WorkerEnds ==
  ASSUME WorkerStages, task \in [Workers -> Tasks \cup {NoTask}],
         stage \in [Tasks -> Stages],
         NEW w \in Workers, w \in Busy, Busy' = Busy \ {w},
         task' = [task EXCEPT ![w] = NoTask],
         stage' = [stage EXCEPT ![task[w]] = "done"]
  PROVE  WorkerStages'
<1>0. Busy \subseteq Workers /\ task[w] \in Tasks
  BY DEF Busy, WorkerStages
<1>1. \A v \in Busy' : v \in Busy /\ task'[v] = task[v] /\ task[v] # task[w]
  BY <1>0 DEF WorkerStages
<1>2. stage'[task[w]] = "done" /\ \A u \in Tasks : u # task[w] => stage'[u] = stage[u]
  BY <1>0
<1>3. \A v \in Busy' : task'[v] \in Tasks /\ stage'[task'[v]] = "running"
  BY <1>1, <1>2 DEF WorkerStages
<1>4. \A u, v \in Busy' : task'[u] = task'[v] => u = v
  BY <1>1 DEF WorkerStages
<1>5. \A u \in Tasks : stage'[u] = "running" => \E v \in Busy' : task'[v] = u
  <2> SUFFICES ASSUME NEW u \in Tasks, stage'[u] = "running"
               PROVE  \E v \in Busy' : task'[v] = u
    OBVIOUS
  <2>1. u # task[w] /\ stage[u] = "running"
    BY <1>2
  <2>2. PICK v \in Busy : task[v] = u
    BY <2>1 DEF WorkerStages
  <2>3. v \in Busy'
    BY <2>1, <2>2
  <2> QED
    BY <1>1, <2>2, <2>3
<1> QED
  BY <1>3, <1>4, <1>5 DEF WorkerStages

(* A step that touches neither tasks nor stages and moves no worker into or *)
(* out of a task or out of the pool.                                        *)
LEMMA StageKeep ==
  ASSUME StageInv, TypeOK, UNCHANGED <<tasks, task, stage>>, Busy' = Busy,
         \A w \in Workers : pc'[w] = "exit" <=> pc[w] = "exit",
         stop => stop', dtor' # "live" => stop',
         dtor' = "done" => \A w \in Workers : pc[w] = "exit"
  PROVE  StageInv'
<1>1. QueueStages'
  BY DEF StageInv, QueueStages
<1>2. WorkerStages'
  BY DEF StageInv, WorkerStages
<1>3. Flags'
  BY DEF StageInv, Flags
<1> QED
  BY <1>1, <1>2, <1>3 DEF StageInv

BusyPC == {"run", "runnotify"}

LEMMA EnqueueStageInv ==
  ASSUME TypeOK, StageInv, NEW c \in Threads, NEW t \in Tasks, NEW from, NEW to,
         Enqueue(c, t, from, to), from \in BusyPC <=> to \in BusyPC,
         from # "exit", to # "exit"
  PROVE  StageInv'
<1>0. /\ tasks \in Seq(Tasks) /\ stage \in [Tasks -> Stages] /\ stage[t] = "new"
      /\ pc \in [Threads -> AllPC] /\ pc[c] = from /\ UNCHANGED <<task, stop, dtor>>
      /\ Workers \subseteq Threads
  BY DEF TypeOK, AllPC, Stages, Enqueue, Threads
<1>1. /\ Busy' = Busy
      /\ \A w \in Workers : pc'[w] = "exit" <=> pc[w] = "exit"
  <2>1. CASE pc' = [pc EXCEPT ![c] = to]
    <3>1. \A w \in Workers : pc'[w] = IF w = c THEN to ELSE pc[w]
      BY <1>0, <2>1
    <3> QED
      BY <1>0, <3>1 DEF Busy, BusyPC
  <2>2. CASE pc' = pc
    BY <2>2 DEF Busy
  <2> QED
    BY <2>1, <2>2, EnqueueType
<1>2. CASE /\ ~stop /\ tasks' = Append(tasks, t)
           /\ stage' = [stage EXCEPT ![t] = "queued"]
  <2>1. QueueStages'
    BY <1>0, <1>2, QueueAppend DEF StageInv, Stages
  <2>2. WorkerStages'
    BY <1>0, <1>1, <1>2, WorkersKeep DEF StageInv, Stages
  <2>3. Flags'
    BY <1>0, <1>1, <1>2 DEF StageInv, Flags
  <2> QED
    BY <2>1, <2>2, <2>3 DEF StageInv
<1>3. CASE tasks' = tasks /\ stage' = [stage EXCEPT ![t] = "refused"]
  <2>1. QueueStages'
    BY <1>0, <1>3, QueueKeep DEF StageInv, Stages
  <2>2. WorkerStages'
    BY <1>0, <1>1, <1>3, WorkersKeep DEF StageInv, Stages
  <2>3. Flags'
    BY <1>0, <1>1, <1>3 DEF StageInv, Flags
  <2> QED
    BY <2>1, <2>2, <2>3 DEF StageInv
<1> QED
  BY <1>2, <1>3 DEF Enqueue, Emplace, MayEnqueue

LEMMA NotifyStageInv ==
  ASSUME TypeOK, StageInv, NEW c \in Threads, NEW from, NEW to \in AllPC,
         EnqueueNotify(c, from, to), from \in BusyPC <=> to \in BusyPC,
         from # "exit", to # "exit"
  PROVE  StageInv'
<1> DEFINE p == [pc EXCEPT ![c] = to]
<1>0. /\ pc \in [Threads -> AllPC] /\ p \in [Threads -> AllPC] /\ pc[c] = from
      /\ pc' \in NotifyOne(p) /\ UNCHANGED <<tasks, task, stop, dtor, stage>>
      /\ Workers \subseteq Threads
  BY DEF TypeOK, AllPC, EnqueueNotify, EnqueueWakes, Threads
<1>1. \A w \in Threads : p[w] = IF w = c THEN to ELSE pc[w]
  BY <1>0
<1> HIDE DEF p
<1>2. \A w \in Threads : pc'[w] = p[w] \/ (p[w] = "wait" /\ pc'[w] = "woken")
  BY <1>0, OneWakes DEF Wakes
<1>3. Busy' = Busy /\ \A w \in Workers : pc'[w] = "exit" <=> pc[w] = "exit"
  BY <1>0, <1>1, <1>2 DEF Busy, BusyPC
<1> QED
  BY <1>0, <1>3, StageKeep DEF StageInv, Flags

LEMMA LockedStageInv ==
  ASSUME TypeOK, StageInv, NEW w \in Workers, WorkerLocked(w)
  PROVE  StageInv'
<1>0. /\ tasks \in Seq(Tasks) /\ stage \in [Tasks -> Stages]
      /\ task \in [Workers -> Tasks \cup {NoTask}]
      /\ pc \in [Threads -> AllPC] /\ Workers \subseteq Threads
      /\ pc[w] \in {"test", "woken"} /\ UNCHANGED <<stop, dtor>>
  BY LockedCases DEF TypeOK, AllPC, Stages, Threads
<1>1. CASE pc' = [pc EXCEPT ![w] = "wait"] /\ UNCHANGED <<tasks, task, stage>>
  <2>1. \A v \in Workers : pc'[v] = IF v = w THEN "wait" ELSE pc[v]
    BY <1>0, <1>1
  <2>2. Busy' = Busy /\ \A v \in Workers : pc'[v] = "exit" <=> pc[v] = "exit"
    BY <1>0, <2>1 DEF Busy
  <2> QED
    BY <1>0, <1>1, <2>2, StageKeep DEF StageInv, Flags
<1>2. CASE /\ stop /\ tasks = <<>> /\ pc' = [pc EXCEPT ![w] = "exit"]
           /\ UNCHANGED <<tasks, task, stage>>
  <2>1. \A v \in Workers : pc'[v] = IF v = w THEN "exit" ELSE pc[v]
    BY <1>0, <1>2
  <2>2. Busy' = Busy
    BY <1>0, <2>1 DEF Busy
  <2>3. QueueStages' /\ WorkerStages'
    BY <1>2, <2>2 DEF StageInv, QueueStages, WorkerStages
  <2>4. Flags'
    BY <1>0, <1>2, <2>1 DEF StageInv, Flags
  <2> QED
    BY <2>3, <2>4 DEF StageInv
<1>3. CASE /\ tasks # <<>> /\ pc' = [pc EXCEPT ![w] = "run"]
           /\ Head(tasks) \in Tasks /\ tasks' = Tail(tasks)
           /\ task' = [task EXCEPT ![w] = Head(tasks)]
           /\ stage' = [stage EXCEPT ![Head(tasks)] = "running"]
  <2>1. \A v \in Workers : pc'[v] = IF v = w THEN "run" ELSE pc[v]
    BY <1>0, <1>3
  <2>2. w \notin Busy /\ Busy' = Busy \cup {w}
    BY <1>0, <2>1 DEF Busy
  <2>3. stage[Head(tasks)] = "queued"
    <3>1. Head(tasks) = tasks[1] /\ 1 \in 1..Len(tasks)
      BY <1>0, <1>3, EmptySeq, LenProperties
    <3> QED
      BY <3>1 DEF StageInv, QueueStages
  <2>4. QueueStages'
    BY <1>0, <1>3, QueueTail DEF StageInv, Stages
  <2>5. WorkerStages'
    BY <1>0, <1>3, <2>2, <2>3, WorkerTakes DEF StageInv
  <2>6. Flags'
    BY <1>0, <1>3, <2>1 DEF StageInv, Flags
  <2> QED
    BY <2>4, <2>5, <2>6 DEF StageInv
<1> QED
  BY <1>1, <1>2, <1>3, LockedCases

LEMMA ReturnStageInv ==
  ASSUME TypeOK, StageInv, NEW w \in Workers, TaskReturns(w)
  PROVE  StageInv'
<1>0. /\ tasks \in Seq(Tasks) /\ stage \in [Tasks -> Stages]
      /\ task \in [Workers -> Tasks \cup {NoTask}]
      /\ pc \in [Threads -> AllPC] /\ Workers \subseteq Threads
  BY DEF TypeOK, AllPC, Stages, Threads
<1>1. /\ pc[w] = "run" /\ UNCHANGED <<tasks, stop, dtor>>
      /\ pc' = [pc EXCEPT ![w] = "test"] /\ task' = [task EXCEPT ![w] = NoTask]
      /\ stage' = [stage EXCEPT ![task[w]] = "done"]
  BY DEF TaskReturns
<1>2. \A v \in Workers : pc'[v] = IF v = w THEN "test" ELSE pc[v]
  BY <1>0, <1>1
<1>3. w \in Busy /\ Busy' = Busy \ {w}
  BY <1>0, <1>1, <1>2 DEF Busy
<1>4. task[w] \in Tasks /\ stage[task[w]] = "running"
  BY <1>3 DEF StageInv, WorkerStages
<1>5. QueueStages'
  BY <1>0, <1>1, <1>4, QueueKeep DEF StageInv, Stages
<1>6. WorkerStages'
  BY <1>0, <1>1, <1>3, WorkerEnds DEF StageInv
<1>7. Flags'
  BY <1>0, <1>1, <1>2 DEF StageInv, Flags
<1> QED
  BY <1>5, <1>6, <1>7 DEF StageInv

LEMMA StageStep ==
  ASSUME TypeOK, StageInv, [Next]_vars
  PROVE  StageInv'
<1>0. /\ Workers \subseteq Threads /\ Submitters \subseteq Threads
      /\ pc \in [Threads -> AllPC] /\ {"idle", "run"} \subseteq AllPC
  BY DEF TypeOK, Threads, AllPC, WorkerPC, SubmitterPC
<1>1. ASSUME NEW s \in Submitters, NEW t \in Tasks, Submit(s, t) PROVE StageInv'
  BY <1>0, <1>1, EnqueueStageInv DEF Submit, BusyPC
<1>2. ASSUME NEW w \in Workers, NEW t \in Tasks, NestedSubmit(w, t) PROVE StageInv'
  BY <1>0, <1>2, EnqueueStageInv DEF NestedSubmit, BusyPC
<1>3. ASSUME NEW s \in Submitters, SubmitNotify(s) PROVE StageInv'
  BY <1>0, <1>3, NotifyStageInv DEF SubmitNotify, BusyPC
<1>4. ASSUME NEW w \in Workers, NestedNotify(w) PROVE StageInv'
  BY <1>0, <1>4, NotifyStageInv DEF NestedNotify, BusyPC
<1>5. ASSUME NEW w \in Workers, WorkerLocked(w) \/ TaskReturns(w) PROVE StageInv'
  BY <1>5, LockedStageInv, ReturnStageInv
<1>6. ASSUME NEW w \in Workers, SpuriousWake(w) PROVE StageInv'
  <2>1. \A v \in Workers : pc'[v] = IF v = w THEN "woken" ELSE pc[v]
    BY <1>0, <1>6 DEF SpuriousWake
  <2>2. Busy' = Busy /\ \A v \in Workers : pc'[v] = "exit" <=> pc[v] = "exit"
    BY <1>6, <2>1 DEF SpuriousWake, Busy
  <2> QED
    BY <1>6, <2>2, StageKeep DEF SpuriousWake, StageInv, Flags
<1>7. CASE DestroyNotify
  <2>1. \A v \in Workers : pc'[v] = pc[v] \/ (pc[v] = "wait" /\ pc'[v] = "woken")
    BY <1>0, <1>7, AllWakes DEF DestroyNotify, DestroyWakes, Wakes
  <2>2. Busy' = Busy /\ \A v \in Workers : pc'[v] = "exit" <=> pc[v] = "exit"
    BY <2>1 DEF Busy
  <2> QED
    BY <1>7, <2>2, StageKeep DEF DestroyNotify, StageInv, Flags
<1>8. CASE DestroyStop \/ DestroyJoin \/ UNCHANGED vars
  <2>1. Busy' = Busy /\ pc' = pc /\ UNCHANGED <<tasks, task, stage>> /\ (stop => stop')
    BY <1>8 DEF DestroyStop, DestroyJoin, vars, Busy
  <2>2. dtor' # "live" => stop'
    BY <1>8 DEF DestroyStop, DestroyJoin, vars, StageInv, Flags
  <2>3. dtor' = "done" => \A v \in Workers : pc[v] = "exit"
    BY <1>8 DEF DestroyStop, DestroyJoin, Joined, vars, StageInv, Flags
  <2> QED
    BY <2>1, <2>2, <2>3, StageKeep
<1> QED
  BY <1>1, <1>2, <1>3, <1>4, <1>5, <1>6, <1>7, <1>8 DEF Next, WorkerStep, DestroyStep

LEMMA StageInit == Init => StageInv
<1> SUFFICES ASSUME Init PROVE StageInv
  OBVIOUS
<1>1. tasks = <<>> /\ Len(tasks) = 0 /\ \A t \in Tasks : stage[t] = "new"
  BY DEF Init
<1>2. \A w \in Workers : pc[w] = "test"
  BY DEF Init, Threads
<1>3. Busy = {} /\ 1..0 = {}
  BY <1>2 DEF Busy
<1>4. QueueStages
  BY <1>1, <1>3 DEF QueueStages
<1>5. WorkerStages
  BY <1>1, <1>3 DEF WorkerStages
<1>6. Flags
  BY <1>1, <1>2 DEF Flags, Init
<1> QED
  BY <1>4, <1>5, <1>6 DEF StageInv

LEMMA Staged == Spec => []StageInv
BY StageInit, StageStep, TypeCorrect, PTL DEF Spec

(* Once every worker has left, the queue is empty and no task is running.   *)
LEMMA JoinedIsDrained ==
  ASSUME TypeOK, StageInv, Joined
  PROVE  tasks = <<>> /\ \A t \in Tasks : stage[t] \in {"new", "refused", "done"}
<1>1. PICK w \in Workers : pc[w] = "exit"
  BY PoolAssumption DEF Joined, PoolAssumption
<1>2. tasks = <<>> /\ Len(tasks) = 0
  BY <1>1 DEF StageInv, Flags
<1>3. Busy = {}
  BY DEF Joined, Busy
<1>4. \A t \in Tasks : stage[t] # "queued" /\ stage[t] # "running"
  BY <1>2, <1>3 DEF StageInv, QueueStages, WorkerStages
<1> QED
  BY <1>2, <1>4 DEF TypeOK

(* When the destructor returns every accepted task has run to its end, for  *)
(* any number of workers, callers and tasks (lines 46-47, 87-88).           *)
THEOREM Drained == Spec => []DestroyedMeansDrained
<1>1. TypeOK /\ StageInv => DestroyedMeansDrained
  BY JoinedIsDrained DEF DestroyedMeansDrained, StageInv, Flags, Joined
<1> QED
  BY <1>1, Staged, TypeCorrect, PTL

(* The instance's copy of a standard operator is that operator.             *)
LEMMA SameCardinality == \A S : Exec!Cardinality(S) = Cardinality(S)
BY DEF Exec!Cardinality, Cardinality

(* With a worker still free there are fewer running tasks than workers.     *)
LEMMA RunningBelowWidth ==
  ASSUME TypeOK, StageInv, NEW w \in Workers, w \notin Busy
  PROVE  Cardinality(Exec!Running) < Cardinality(Workers)
<1> DEFINE f == [v \in Busy |-> task[v]]
<1>1. f \in Surjection(Busy, Exec!Running)
  <2>1. \A v \in Busy : task[v] \in Exec!Running
    BY DEF StageInv, WorkerStages, Exec!Running
  <2>2. \A t \in Exec!Running : \E v \in Busy : task[v] = t
    BY DEF StageInv, WorkerStages, Exec!Running
  <2> QED
    BY <2>1, <2>2 DEF Surjection
<1>2. Busy \in SUBSET (Workers \ {w}) /\ IsFiniteSet(Workers)
  BY PoolAssumption DEF Busy, PoolAssumption
<1>3. IsFiniteSet(Workers \ {w}) /\ Cardinality(Workers \ {w}) = Cardinality(Workers) - 1
  BY <1>2, FS_RemoveElement
<1>4. IsFiniteSet(Busy) /\ Cardinality(Busy) <= Cardinality(Workers \ {w})
  BY <1>2, <1>3, FS_Subset
<1> HIDE DEF f
<1>5. IsFiniteSet(Exec!Running) /\ Cardinality(Exec!Running) <= Cardinality(Busy)
  BY <1>1, <1>4, FS_Surjection
<1>6. /\ Cardinality(Workers) \in Nat /\ Cardinality(Busy) \in Nat
      /\ Cardinality(Exec!Running) \in Nat
  BY <1>2, <1>4, <1>5, FS_CardinalityType
<1> QED
  BY <1>3, <1>4, <1>5, <1>6

LEMMA EnqueueRefines ==
  ASSUME TypeOK, NEW c, NEW t \in Tasks, NEW from, NEW to,
         Enqueue(c, t, from, to), dtor # "done"
  PROVE  Exec!ExecNext
<1>1. CASE MayEnqueue
  <2>1. Exec!Accept(t)
    BY <1>1 DEF Enqueue, Emplace, MayEnqueue, Exec!Accept
  <2> QED
    BY <2>1 DEF Exec!ExecNext
<1>2. CASE ~MayEnqueue
  <2>1. Exec!Refuse(t)
    BY <1>2 DEF Enqueue, Emplace, MayEnqueue, Exec!Refuse
  <2> QED
    BY <2>1 DEF Exec!ExecNext
<1> QED
  BY <1>1, <1>2

LEMMA LockedRefines ==
  ASSUME TypeOK, StageInv, NEW w \in Workers, WorkerLocked(w)
  PROVE  [Exec!ExecNext]_(Exec!evars)
<1>1. CASE UNCHANGED <<tasks, task, stage>>
  BY <1>1, LockedCases DEF Exec!evars
<1>2. CASE /\ tasks # <<>> /\ tasks' = Tail(tasks)
           /\ stage' = [stage EXCEPT ![Head(tasks)] = "running"]
  <2>0. tasks \in Seq(Tasks) /\ w \notin Busy /\ UNCHANGED <<stop, dtor>>
    BY LockedCases DEF TypeOK, Busy
  <2>1. stage[Head(tasks)] = "queued"
    <3>1. Head(tasks) = tasks[1] /\ 1 \in 1..Len(tasks)
      BY <1>2, <2>0, EmptySeq, LenProperties
    <3> QED
      BY <3>1 DEF StageInv, QueueStages
  <2>2. Exec!Begin
    BY <1>2, <2>0, <2>1, RunningBelowWidth, SameCardinality DEF Exec!Begin
  <2> QED
    BY <2>2 DEF Exec!ExecNext
<1> QED
  BY <1>1, <1>2, LockedCases

(* Every step of the pool is a step of the executor or a stutter.           *)
LEMMA StepRefines ==
  ASSUME TypeOK, StageInv, [Next]_vars
  PROVE  [Exec!ExecNext]_(Exec!evars)
<1>1. ASSUME NEW s \in Submitters, NEW t \in Tasks, Submit(s, t)
      PROVE  [Exec!ExecNext]_(Exec!evars)
  BY <1>1, EnqueueRefines DEF Submit
<1>2. ASSUME NEW w \in Workers, NEW t \in Tasks, NestedSubmit(w, t)
      PROVE  [Exec!ExecNext]_(Exec!evars)
  <2>1. dtor # "done"
    BY <1>2 DEF NestedSubmit, Enqueue, StageInv, Flags
  <2> QED
    BY <1>2, <2>1, EnqueueRefines DEF NestedSubmit
<1>3. ASSUME NEW w \in Workers, WorkerLocked(w) PROVE [Exec!ExecNext]_(Exec!evars)
  BY <1>3, LockedRefines
<1>4. ASSUME NEW w \in Workers, TaskReturns(w) PROVE [Exec!ExecNext]_(Exec!evars)
  <2>1. task[w] \in Tasks /\ stage[task[w]] = "running"
    BY <1>4 DEF TaskReturns, StageInv, WorkerStages, Busy
  <2>2. Exec!End(task[w])
    BY <1>4, <2>1 DEF TaskReturns, Exec!End
  <2> QED
    BY <2>1, <2>2 DEF Exec!ExecNext
<1>5. CASE \/ \E s \in Submitters : SubmitNotify(s)
           \/ \E w \in Workers : NestedNotify(w) \/ SpuriousWake(w)
           \/ DestroyNotify \/ UNCHANGED vars
  <2>1. UNCHANGED <<tasks, stage, stop>> /\ (dtor' = "done" <=> dtor = "done")
    BY <1>5 DEF SubmitNotify, NestedNotify, EnqueueNotify, SpuriousWake,
                DestroyNotify, vars
  <2> QED
    BY <2>1 DEF Exec!evars
<1>6. CASE DestroyStop
  <2>1. Exec!Close \/ UNCHANGED Exec!evars
    BY <1>6 DEF DestroyStop, Exec!Close, Exec!evars, TypeOK
  <2> QED
    BY <2>1 DEF Exec!ExecNext
<1>7. CASE DestroyJoin
  <2>1. stop /\ UNCHANGED <<tasks, stage, stop>> /\ dtor' = "done"
    BY <1>7 DEF DestroyJoin, StageInv, Flags
  <2>2. \A t \in Tasks : stage[t] \in {"new", "refused", "done"}
    BY <1>7, JoinedIsDrained DEF DestroyJoin
  <2>3. Exec!Vanish
    BY <2>1, <2>2 DEF Exec!Vanish
  <2> QED
    BY <2>3 DEF Exec!ExecNext
<1> QED
  BY <1>1, <1>2, <1>3, <1>4, <1>5, <1>6, <1>7 DEF Next, WorkerStep, DestroyStep

(* The pool implements the executor, for any number of workers, callers and *)
(* tasks: FIFO start, at most as many running as workers, each task once,   *)
(* nothing accepted after stop, gone only when drained.                     *)
THEOREM Refinement == Spec => ImplementsExecutor
<1>1. Init => Exec!ExecInit
  BY DEF Init, Exec!ExecInit
<1>2. TypeOK /\ StageInv /\ [Next]_vars => [Exec!ExecNext]_(Exec!evars)
  BY StepRefines
<1> QED
  BY <1>1, <1>2, Staged, TypeCorrect, PTL DEF Spec, ImplementsExecutor, Exec!ExecSpec

-----------------------------------------------------------------------------
(* The invariant                                                            *)

(* A list: its connections differ in their numbers, which have been given   *)
(* out, and the iterator points at one of them or at the end.               *)
Sound(list, it, m) ==
  /\ IsFiniteSet(list) /\ \A c, d \in list : c.id = d.id => c = d
  /\ \A c \in list : c.id <= m
  /\ it \in Numbers(list) \cup {End}
Lists == \A s \in Sigs : Sound(conns[s], current[s], made[s])

(* What an object knows is connected to it, and what is gone holds nothing. *)
Returned == \A o \in Objects : \A s \in senders[o] : o \in Dests(s)
Gone ==
  /\ \A s \in Sigs \ alive : conns[s] = {}
  /\ \A o \in Objects \ alive : senders[o] = {}
Knows == BothSidesKnow /\ Returned /\ Gone

(* What the iterator of a running emit has still to reach.                  *)
Ahead(it) == {i \in 1..MaxConns : it # End /\ i >= it}

(* An emit: what it began with has been called or is ahead, unless it is    *)
(* gone; alone, it has called what is behind the iterator.                  *)
Reaches(e, list, it, m) ==
  /\ e.start \subseteq 1..m
  /\ e.start \cap Numbers(list) \subseteq e.called \cup Ahead(it)
  /\ ~e.nested =>
       /\ IsInjective(e.own)
       /\ \A k \in DOMAIN e.own : e.own[k] <= m /\ (it # End => e.own[k] < it)
Running(i) ==
  LET e == emits[i] IN
  /\ e.sig \in alive /\ Reaches(e, conns[e.sig], current[e.sig], made[e.sig])
  /\ \A j \in DOMAIN emits : i < j /\ emits[j].sig = e.sig => e.nested
Emits == \A i \in DOMAIN emits : Running(i)

IInv == SignalsTypeOK /\ Lists /\ Knows /\ Emits

-----------------------------------------------------------------------------
(* Numbers                                                                  *)

LEMMA Smallest ==
  ASSUME NEW T, T \subseteq Nat, T # {}
  PROVE  Min(T) \in T /\ \A k \in T : Min(T) <= k
<1>1. IsWellFoundedOn(OpToRel(<, Nat), Nat)
  BY NatLessThanWellFounded
<1>2. PICK m \in T : \A k \in T : ~(<<k, m>> \in OpToRel(<, Nat))
  BY <1>1, WFMin
<1>3. \A k \in T : ~(k < m)
  BY <1>2 DEF OpToRel
<1>4. \A k \in T : m <= k
  BY <1>3
<1> QED
  BY <1>4 DEF Min

LEMMA FirstIs ==
  ASSUME NEW T, T \subseteq 1..MaxConns
  PROVE  /\ First(T) \in T \cup {End} /\ (First(T) = End <=> T = {})
         /\ T # {} => First(T) \in T /\ \A k \in T : First(T) <= k
<1>1. T \subseteq Nat /\ \A k \in T : k # 0
  BY SignalsAssumption DEF SignalsAssumption
<1>2. CASE T = {}
  BY <1>2 DEF First
<1>3. CASE T # {}
  <2>1. First(T) = Min(T)
    BY <1>3 DEF First
  <2> QED
    BY <1>1, <1>3, <2>1, Smallest DEF End
<1> QED
  BY <1>2, <1>3

(* The numbers of a list, and of a part of it.                              *)
LEMMA NumbersType ==
  ASSUME NEW list \in SUBSET Connection
  PROVE  /\ Numbers(list) \subseteq 1..MaxConns /\ End \notin Numbers(list)
         /\ \A c \in list : c.id \in Numbers(list)
BY SignalsAssumption DEF SignalsAssumption, Numbers, Connection, End

LEMMA WithoutIs ==
  ASSUME NEW list \in SUBSET Connection, NEW ids
  PROVE  Without(list, ids) \subseteq list /\ Numbers(Without(list, ids)) = Numbers(list) \ ids
BY DEF Without, Numbers

(* Rank counts up from one in the order of the numbers.                     *)
LEMMA RankIs ==
  ASSUME NEW list, NEW m \in Nat, IsFiniteSet(list), \A c \in list : c.id \in 1..m
  PROVE  /\ \A c \in list : Rank(list, c) \in 1..Cardinality(list)
         /\ \A c, d \in list : c.id < d.id => Rank(list, c) < Rank(list, d)
<1> DEFINE Upto(c) == {d \in list : d.id <= c.id}
<1>1. \A c \in list : IsFiniteSet(Upto(c)) /\ Cardinality(Upto(c)) <= Cardinality(list)
  BY FS_Subset
<1>2. \A c \in list : c \in Upto(c) /\ Upto(c) # {}
  OBVIOUS
<1>3. \A c \in list : Cardinality(Upto(c)) \in Nat /\ Cardinality(Upto(c)) # 0
  <2> SUFFICES ASSUME NEW c \in list
               PROVE  Cardinality(Upto(c)) \in Nat /\ Cardinality(Upto(c)) # 0
    OBVIOUS
  <2>1. IsFiniteSet(Upto(c)) /\ Upto(c) # {}
    BY <1>1, <1>2
  <2> HIDE DEF Upto
  <2> QED
    BY <2>1, FS_CardinalityType, FS_EmptySet
<1>4. Cardinality(list) \in Nat
  BY FS_CardinalityType
<1>5. \A c, d \in list : c.id < d.id => Cardinality(Upto(c)) < Cardinality(Upto(d))
  <2> SUFFICES ASSUME NEW c \in list, NEW d \in list, c.id < d.id
               PROVE  Cardinality(Upto(c)) < Cardinality(Upto(d))
    OBVIOUS
  <2>1. Upto(c) \subseteq Upto(d)
    <3>1. \A e \in list : e.id <= c.id => e.id <= d.id
      OBVIOUS
    <3> QED
      BY <3>1
  <2>2. d \in Upto(d) /\ d \notin Upto(c)
    OBVIOUS
  <2>3. IsFiniteSet(Upto(d))
    BY <1>1
  <2> HIDE DEF Upto
  <2>4. Cardinality(Upto(c)) <= Cardinality(Upto(d)) /\ Cardinality(Upto(d)) # Cardinality(Upto(c))
    BY <2>1, <2>2, <2>3, FS_Subset
  <2> QED
    BY <1>3, <2>4
<1> HIDE DEF Upto
<1>6. \A c \in list : Rank(list, c) = Cardinality(Upto(c))
  BY DEF Rank, Upto
<1> QED
  BY <1>1, <1>3, <1>4, <1>5, <1>6

(* A list numbered anew: as many connections, to the same objects, with the *)
(* numbers that follow.                                                     *)
LEMMA RenumberedIs ==
  ASSUME NEW list \in SUBSET Connection, NEW from \in Nat, IsFiniteSet(list),
         \A c, d \in list : c.id = d.id => c = d
  PROVE  LET new == Renumbered(list, from) IN
         /\ IsFiniteSet(new) /\ Cardinality(new) = Cardinality(list)
         /\ \A c \in new : /\ c = [id |-> c.id, dest |-> c.dest]
                           /\ c.id \in (from + 1)..(from + Cardinality(list))
                           /\ c.dest \in {d.dest : d \in list}
         /\ {c.dest : c \in new} = {c.dest : c \in list}
         /\ \A c, d \in new : c.id = d.id => c = d
<1> DEFINE New(c) == [id |-> from + Rank(list, c), dest |-> c.dest]
           new == Renumbered(list, from)
           f == [c \in list |-> New(c)]
<1>1. \A c \in list : c.id \in 1..MaxConns
  BY DEF Connection
<1>2. /\ \A c \in list : Rank(list, c) \in 1..Cardinality(list)
      /\ \A c, d \in list : c.id < d.id => Rank(list, c) < Rank(list, d)
  BY <1>1, RankIs, SignalsAssumption DEF SignalsAssumption
<1>3. Cardinality(list) \in Nat
  BY FS_CardinalityType
<1>4. \A c, d \in list : Rank(list, c) = Rank(list, d) => c = d
  <2> SUFFICES ASSUME NEW c \in list, NEW d \in list, Rank(list, c) = Rank(list, d) PROVE c = d
    OBVIOUS
  <2>1. ~(c.id < d.id) /\ ~(d.id < c.id)
    BY <1>2, <1>3
  <2>2. c.id \in Nat /\ d.id \in Nat
    BY <1>1
  <2>3. c.id = d.id
    BY <2>1, <2>2
  <2> QED
    BY <2>3
<1>5. new = {New(c) : c \in list}
  BY DEF Renumbered
<1>6. \A c, d \in list : New(c).id = New(d).id => c = d
  <2>1. \A c \in list : New(c).id = from + Rank(list, c)
    OBVIOUS
  <2>2. \A c \in list : Rank(list, c) \in Nat
    BY <1>2, <1>3
  <2> HIDE DEF New
  <2>3. \A c, d \in list : New(c).id = New(d).id => Rank(list, c) = Rank(list, d)
    BY <2>1, <2>2
  <2> QED
    BY <1>4, <2>3
<1>7. f \in Bijection(list, new)
  <2> HIDE DEF New
  <2>1. f \in [list -> new] /\ \A c \in list : f[c] = New(c)
    BY <1>5
  <2>2. \A c, d \in list : f[c] = f[d] => c = d
    BY <1>6, <2>1
  <2>3. \A n \in new : \E c \in list : f[c] = n
    BY <1>5, <2>1
  <2> HIDE DEF f, new
  <2>4. f \in Injection(list, new)
    BY <2>1, <2>2 DEF Injection, IsInjective
  <2>5. f \in Surjection(list, new)
    BY <2>1, <2>3 DEF Surjection
  <2> QED
    BY <2>4, <2>5 DEF Bijection
<1>8. IsFiniteSet(new) /\ Cardinality(new) = Cardinality(list)
  <2> HIDE DEF f, new
  <2>1. ExistsBijection(list, new)
    BY <1>7 DEF ExistsBijection
  <2> QED
    BY <2>1, FS_Bijection
<1>9. \A c \in list : /\ New(c) = [id |-> New(c).id, dest |-> New(c).dest]
                      /\ New(c).id \in (from + 1)..(from + Cardinality(list))
                      /\ New(c).dest = c.dest
  BY <1>2, <1>3
<1> HIDE DEF New, f
<1>10. \A c \in new : /\ c = [id |-> c.id, dest |-> c.dest]
                      /\ c.id \in (from + 1)..(from + Cardinality(list))
                      /\ c.dest \in {d.dest : d \in list}
  BY <1>5, <1>9
<1>11. {c.dest : c \in new} = {c.dest : c \in list}
  BY <1>5, <1>9
<1>12. \A c, d \in new : c.id = d.id => c = d
  BY <1>5, <1>6
<1> QED
  BY <1>8, <1>10, <1>11, <1>12

-----------------------------------------------------------------------------
(* What may become of a list and its iterator while no emit begins or       *)
(* calls: connections go, the iterator steps past them or to the end, and   *)
(* what comes has new numbers.                                              *)

Moves(list, it, m, list2, it2, m2) ==
  /\ list2 \in SUBSET Connection /\ it2 \in 0..MaxConns /\ m2 \in 0..MaxConns
  /\ Sound(list2, it2, m2) /\ m <= m2
  /\ \A i \in Numbers(list2) : i \in Numbers(list) \/ i > m
  /\ it # End => \A i \in Numbers(list) \cap Numbers(list2) : i >= it => it2 # End /\ i >= it2
  /\ it2 # End => it # End /\ it <= it2

LEMMA MovesNot ==
  ASSUME NEW list \in SUBSET Connection, NEW it \in 0..MaxConns, NEW m \in 0..MaxConns,
         Sound(list, it, m)
  PROVE  Moves(list, it, m, list, it, m)
<1>1. \A i \in Numbers(list) : i \in Nat
  BY NumbersType
<1> QED
  BY <1>1, SignalsAssumption DEF Moves, SignalsAssumption

LEMMA MovesOff ==
  ASSUME NEW list \in SUBSET Connection, NEW it \in 0..MaxConns, NEW m \in 0..MaxConns,
         Sound(list, it, m), NEW ids
  PROVE  Moves(list, it, m, Without(list, ids), Advanced(list, it, ids), m)
<1> DEFINE rest == Without(list, ids)  to == Advanced(list, it, ids)
           left == {i \in Numbers(list) : i >= it /\ i \notin ids}
<1>1. Numbers(list) \subseteq 1..MaxConns /\ End \notin Numbers(list)
  BY NumbersType
<1>2. rest \subseteq list /\ Numbers(rest) = Numbers(list) \ ids
  BY WithoutIs
<1>3. left \subseteq 1..MaxConns
  BY <1>1
<1>4. to = IF it = End THEN End ELSE First(left)
  BY DEF Advanced
<1>5. /\ First(left) \in left \cup {End} /\ (First(left) = End <=> left = {})
      /\ left # {} => First(left) \in left /\ \A k \in left : First(left) <= k
  BY <1>3, FirstIs
<1>6. to \in Numbers(rest) \cup {End}
  BY <1>2, <1>4, <1>5
<1>7. to # End => it # End /\ to \in left
  BY <1>4, <1>5
<1>8. it # End => \A i \in Numbers(rest) : i >= it => to # End /\ i >= to
  <2> SUFFICES ASSUME it # End, NEW i \in Numbers(rest), i >= it PROVE to # End /\ i >= to
    OBVIOUS
  <2>1. i \in left
    BY <1>2
  <2>2. to = First(left) /\ left # {}
    BY <1>4, <2>1
  <2>3. First(left) \in Nat /\ i \in Nat
    BY <1>1, <1>3, <1>5, <2>1, <2>2
  <2> QED
    BY <1>5, <2>1, <2>2, <2>3
<1> HIDE DEF rest, to
<1>9. IsFiniteSet(rest) /\ rest \in SUBSET Connection
  BY <1>2, FS_Subset DEF Sound
<1>10. Sound(rest, to, m)
  BY <1>2, <1>6, <1>9 DEF Sound
<1>11. to \in 0..MaxConns
  BY <1>1, <1>3, <1>7, SignalsAssumption DEF End, SignalsAssumption
<1>12. to # End => it <= to
  BY <1>1, <1>3, <1>7
<1>13. m <= m
  OBVIOUS
<1>14. Numbers(rest) \subseteq Numbers(list)
  BY <1>2
<1> QED
  BY <1>7, <1>8, <1>9, <1>10, <1>11, <1>12, <1>13, <1>14 DEF Moves, rest, to

LEMMA MovesOut ==
  ASSUME NEW list, NEW it, NEW m \in 0..MaxConns
  PROVE  Moves(list, it, m, {}, End, m)
BY FS_EmptySet, SignalsAssumption DEF Moves, Sound, Numbers, End, SignalsAssumption

LEMMA MovesOn ==
  ASSUME NEW list \in SUBSET Connection, NEW it \in 0..MaxConns, NEW m \in 0..MaxConns,
         Sound(list, it, m), NEW new \in SUBSET Connection, NEW m2 \in 0..MaxConns,
         IsFiniteSet(new), m <= m2, \A c \in new : m < c.id /\ c.id <= m2,
         \A c, d \in new : c.id = d.id => c = d
  PROVE  Moves(list, it, m, list \cup new, it, m2)
<1> DEFINE all == list \cup new
<1>1. Numbers(list) \subseteq 1..MaxConns /\ Numbers(new) \subseteq 1..MaxConns
  BY NumbersType
<1>2. Numbers(all) = Numbers(list) \cup Numbers(new)
  BY DEF Numbers
<1>3. \A i \in Numbers(new) : i > m
  BY <1>1 DEF Numbers
<1>4. IsFiniteSet(all)
  BY FS_Union DEF Sound
<1>5. \A c \in all : c.id <= m2
  <2>1. \A c \in list : c.id \in Nat /\ c.id <= m
    BY DEF Sound, Connection
  <2> QED
    BY <2>1
<1>6. \A c, d \in all : c.id = d.id => c = d
  <2>1. \A c \in list, d \in new : c.id # d.id
    <3>1. \A c \in list : c.id \in Nat /\ c.id <= m
      BY DEF Sound, Connection
    <3>2. \A d \in new : d.id \in Nat /\ m < d.id
      BY DEF Connection
    <3> QED
      BY <3>1, <3>2
  <2> QED
    BY <2>1 DEF Sound
<1>7. Sound(all, it, m2)
  BY <1>2, <1>4, <1>5, <1>6 DEF Sound
<1>8. it # End => \A i \in Numbers(list) : i >= it => it # End /\ i >= it
  OBVIOUS
<1>9. it <= it
  OBVIOUS
<1> HIDE DEF all
<1> QED
  BY <1>2, <1>3, <1>7, <1>8, <1>9 DEF Moves, all

(* An emit sees such a change with nothing lost.                            *)
LEMMA MovesReach ==
  ASSUME NEW e \in Emit, NEW list \in SUBSET Connection, NEW it \in 0..MaxConns,
         NEW m \in 0..MaxConns, NEW list2, NEW it2, NEW m2,
         Moves(list, it, m, list2, it2, m2), Reaches(e, list, it, m)
  PROVE  Reaches(e, list2, it2, m2)
<1>1. /\ list2 \in SUBSET Connection /\ it2 \in 0..MaxConns /\ m2 \in 0..MaxConns /\ m <= m2
  BY DEF Moves
<1>2. Numbers(list) \subseteq 1..MaxConns /\ Numbers(list2) \subseteq 1..MaxConns
  BY <1>1, NumbersType
<1>3. e.start \subseteq 1..m2
  BY <1>1 DEF Reaches
<1>4. ASSUME NEW i \in e.start \cap Numbers(list2) PROVE i \in e.called \cup Ahead(it2)
  <2>1. i \in 1..m
    BY <1>4 DEF Reaches
  <2>2. i \in Numbers(list)
    BY <1>4, <2>1 DEF Moves
  <2>3. i \in e.called \/ (it # End /\ i >= it)
    BY <1>4, <2>2 DEF Reaches, Ahead
  <2>4. it # End /\ i >= it => it2 # End /\ i >= it2
    BY <1>4, <2>2 DEF Moves
  <2> QED
    BY <1>2, <1>4, <2>3, <2>4 DEF Ahead
<1>5. ASSUME ~e.nested, NEW k \in DOMAIN e.own
      PROVE  e.own[k] <= m2 /\ (it2 # End => e.own[k] < it2)
  <2>1. e.own[k] \in Nat
    <3>1. e.own \in Seq(1..MaxConns)
      BY DEF Emit
    <3>2. k \in 1..Len(e.own)
      BY <1>5, <3>1, LenProperties
    <3>3. e.own[k] \in 1..MaxConns
      BY <3>1, <3>2, ElementOfSeq
    <3> QED
      BY <3>3
  <2>2. e.own[k] <= m /\ (it # End => e.own[k] < it)
    BY <1>5 DEF Reaches
  <2>3. it2 # End => it # End /\ it <= it2
    BY DEF Moves
  <2> QED
    BY <1>1, <2>1, <2>2, <2>3
<1> QED
  BY <1>3, <1>4, <1>5 DEF Reaches

-----------------------------------------------------------------------------
(* Steps that leave the emits as they are                                   *)

MovesAt(s) == Moves(conns[s], current[s], made[s], conns'[s], current'[s], made'[s])
KeptAt(s) == conns'[s] = conns[s] /\ current'[s] = current[s] /\ made'[s] = made[s]
AreFunctions ==
  /\ DOMAIN conns' = Sigs /\ DOMAIN current' = Sigs /\ DOMAIN made' = Sigs
  /\ conns' = [s \in Sigs |-> conns'[s]] /\ current' = [s \in Sigs |-> current'[s]]
  /\ made' = [s \in Sigs |-> made'[s]]

LEMMA AtType ==
  ASSUME SignalsTypeOK, Lists, NEW s \in Sigs
  PROVE  /\ conns[s] \in SUBSET Connection /\ current[s] \in 0..MaxConns
         /\ made[s] \in 0..MaxConns /\ Sound(conns[s], current[s], made[s])
BY DEF SignalsTypeOK, Lists

LEMMA KeptMoves ==
  ASSUME SignalsTypeOK, Lists, NEW s \in Sigs, KeptAt(s)
  PROVE  MovesAt(s)
BY AtType, MovesNot DEF MovesAt, KeptAt

LEMMA ListsMove ==
  ASSUME SignalsTypeOK, Lists, AreFunctions, \A s \in Sigs : MovesAt(s)
  PROVE  /\ Lists'
         /\ conns' \in [Sigs -> SUBSET Connection] /\ current' \in [Sigs -> 0..MaxConns]
         /\ made' \in [Sigs -> 0..MaxConns]
<1>1. \A s \in Sigs : /\ conns'[s] \in SUBSET Connection /\ current'[s] \in 0..MaxConns
                      /\ made'[s] \in 0..MaxConns /\ Sound(conns'[s], current'[s], made'[s])
  BY DEF MovesAt, Moves
<1>2. Lists'
  BY <1>1 DEF Lists
<1> QED
  BY <1>1, <1>2 DEF AreFunctions

LEMMA EmitType ==
  ASSUME SignalsTypeOK, NEW i \in DOMAIN emits
  PROVE  emits[i] \in Emit /\ emits[i].sig \in Sigs /\ i \in 1..Len(emits)
<1>1. emits \in Seq(Emit)
  BY DEF SignalsTypeOK
<1>2. i \in 1..Len(emits)
  BY <1>1, LenProperties
<1>3. emits[i] \in Emit
  BY <1>1, <1>2, ElementOfSeq
<1> QED
  BY <1>2, <1>3 DEF Emit

LEMMA EmitsStay ==
  ASSUME SignalsTypeOK, Lists, Emits, \A s \in Sigs : MovesAt(s), emits' = emits,
         \A s \in Sigs : Firing(s) /\ s \in alive => s \in alive'
  PROVE  Emits'
<1> SUFFICES ASSUME NEW i \in DOMAIN emits PROVE Running(i)'
  BY DEF Emits
<1> DEFINE e == emits[i]  s == e.sig
<1>1. e \in Emit /\ s \in Sigs
  BY EmitType
<1>2. s \in alive /\ Reaches(e, conns[s], current[s], made[s])
  BY DEF Emits, Running
<1>3. s \in alive'
  BY <1>1, <1>2 DEF Firing
<1>4. Reaches(e, conns'[s], current'[s], made'[s])
  <2>1. Moves(conns[s], current[s], made[s], conns'[s], current'[s], made'[s])
    BY <1>1 DEF MovesAt
  <2>2. /\ conns[s] \in SUBSET Connection /\ current[s] \in 0..MaxConns /\ made[s] \in 0..MaxConns
    BY <1>1, AtType
  <2> HIDE DEF e, s
  <2> QED
    BY <1>1, <1>2, <2>1, <2>2, MovesReach
<1>5. \A j \in DOMAIN emits : i < j /\ emits[j].sig = e.sig => e.nested
  BY DEF Emits, Running
<1> QED
  BY <1>3, <1>4, <1>5 DEF Running

-----------------------------------------------------------------------------
(* The actions, one lemma each                                              *)

LEMMA DestsType ==
  ASSUME SignalsTypeOK, NEW s \in Sigs
  PROVE  Dests(s) \subseteq Objects
BY DEF SignalsTypeOK, Dests, Connection

LEMMA Connects ==
  ASSUME IInv, NEW s \in Sigs, NEW o \in Objects, Connect(s, o)
  PROVE  IInv'
<1> DEFINE new == [id |-> made[s] + 1, dest |-> o]
<1>0. SignalsTypeOK /\ Lists /\ Knows /\ Emits
  BY DEF IInv
<1>1. /\ conns' = [conns EXCEPT ![s] = conns[s] \cup {new}]
      /\ made' = [made EXCEPT ![s] = made[s] + 1]
      /\ senders' = [senders EXCEPT ![o] = senders[o] \cup {s}]
      /\ halved' = halved \ {<<s, o>>} /\ {s, o} \subseteq alive /\ made[s] < MaxConns
      /\ current' = current /\ alive' = alive /\ emits' = emits
  BY DEF Connect
<1>2. /\ conns[s] \in SUBSET Connection /\ current[s] \in 0..MaxConns
      /\ made[s] \in 0..MaxConns /\ Sound(conns[s], current[s], made[s])
  BY <1>0, AtType
<1>3. new \in Connection /\ made[s] < new.id /\ new.id <= made[s] + 1 /\ made[s] + 1 \in 0..MaxConns
      /\ made[s] <= made[s] + 1 /\ new.dest = o
  BY <1>1, <1>2, SignalsAssumption DEF Connection, SignalsAssumption
<1> HIDE DEF new
<1>4. MovesAt(s)
  <2>1. Moves(conns[s], current[s], made[s], conns[s] \cup {new}, current[s], made[s] + 1)
    <3>1. IsFiniteSet({new}) /\ {new} \in SUBSET Connection
      BY <1>3, FS_Singleton
    <3>2. \A c \in {new} : made[s] < c.id /\ c.id <= made[s] + 1
      BY <1>3
    <3>3. \A c, d \in {new} : c.id = d.id => c = d
      OBVIOUS
    <3> QED
      BY <1>2, <1>3, <3>1, <3>2, <3>3, MovesOn
  <2> QED
    BY <1>0, <1>1, <2>1 DEF MovesAt, SignalsTypeOK
<1>5. \A t \in Sigs : MovesAt(t)
  <2>1. \A t \in Sigs \ {s} : KeptAt(t)
    BY <1>0, <1>1 DEF KeptAt, SignalsTypeOK
  <2> QED
    BY <1>0, <1>4, <2>1, KeptMoves
<1>6. AreFunctions
  BY <1>0, <1>1 DEF AreFunctions, SignalsTypeOK
<1>7. SignalsTypeOK'
  <2>1. senders' \in [Objects -> SUBSET Sigs] /\ halved' \subseteq Sigs \X Objects
    BY <1>0, <1>1 DEF SignalsTypeOK
  <2> QED
    BY <1>0, <1>1, <1>5, <1>6, <2>1, ListsMove DEF SignalsTypeOK
<1>8. Knows'
  <2>1. Dests(s)' = Dests(s) \cup {o} /\ \A t \in Sigs \ {s} : Dests(t)' = Dests(t)
    BY <1>0, <1>1, <1>3 DEF Dests, SignalsTypeOK
  <2>2. senders'[o] = senders[o] \cup {s} /\ \A q \in Objects \ {o} : senders'[q] = senders[q]
    BY <1>0, <1>1 DEF SignalsTypeOK
  <2>3. BothSidesKnow'
    <3>1. ASSUME NEW t \in Sigs \cap alive', NEW q \in Dests(t)', <<t, q>> \notin halved'
          PROVE  q \in alive' /\ t \in senders'[q]
      <4>1. CASE t = s /\ q = o
        BY <1>1, <2>2, <4>1
      <4>2. CASE ~(t = s /\ q = o)
        <5>1. q \in Dests(t) /\ <<t, q>> \notin halved
          BY <1>1, <2>1, <3>1, <4>2
        <5>2. q \in alive /\ t \in senders[q] /\ q \in Objects
          BY <1>0, <1>1, <3>1, <5>1, DestsType DEF Knows, BothSidesKnow
        <5> QED
          BY <1>1, <2>2, <5>2
      <4> QED
        BY <4>1, <4>2
    <3>2. \A q \in Objects : senders'[q] \subseteq alive'
      BY <1>0, <1>1, <2>2 DEF Knows, BothSidesKnow
    <3> QED
      BY <3>1, <3>2 DEF BothSidesKnow
  <2>4. Returned'
    <3>1. ASSUME NEW q \in Objects, NEW t \in senders'[q] PROVE q \in Dests(t)'
      <4>1. t \in senders[q] => q \in Dests(t) /\ t \in Sigs
        BY <1>0 DEF Knows, Returned, SignalsTypeOK
      <4>2. t \in senders[q] \/ (t = s /\ q = o)
        BY <2>2, <3>1
      <4> QED
        BY <2>1, <4>1, <4>2
    <3> QED
      BY <3>1 DEF Returned
  <2>5. Gone'
    BY <1>0, <1>1, <2>2 DEF Knows, Gone, SignalsTypeOK
  <2> QED
    BY <2>3, <2>4, <2>5 DEF Knows
<1>9. Emits'
  BY <1>0, <1>1, <1>5, EmitsStay
<1> QED
  BY <1>0, <1>5, <1>6, <1>7, <1>8, <1>9, ListsMove DEF IInv

LEMMA Disconnects ==
  ASSUME IInv, NEW s \in Sigs, NEW o \in Objects, Disconnect(s, o)
  PROVE  IInv'
<1> DEFINE n == First(Numbers(To(s, o)))
<1>0. SignalsTypeOK /\ Lists /\ Knows /\ Emits
  BY DEF IInv
<1>1. /\ conns' = [conns EXCEPT ![s] = Without(conns[s], {n})]
      /\ current' = [current EXCEPT ![s] = Advanced(conns[s], current[s], {n})]
      /\ senders' = [senders EXCEPT ![o] = senders[o] \ {s}]
      /\ halved' = IF Cardinality(To(s, o)) > 1 THEN halved \cup {<<s, o>>} ELSE halved \ {<<s, o>>}
      /\ {s, o} \subseteq alive /\ To(s, o) # {}
      /\ made' = made /\ alive' = alive /\ emits' = emits
  BY DEF Disconnect, Erase
<1>2. /\ conns[s] \in SUBSET Connection /\ current[s] \in 0..MaxConns
      /\ made[s] \in 0..MaxConns /\ Sound(conns[s], current[s], made[s])
  BY <1>0, AtType
<1>3. MovesAt(s)
  <2>1. Moves(conns[s], current[s], made[s], Without(conns[s], {n}),
              Advanced(conns[s], current[s], {n}), made[s])
    BY <1>2, MovesOff
  <2> HIDE DEF n
  <2> QED
    BY <1>0, <1>1, <2>1 DEF MovesAt, SignalsTypeOK
<1>4. \A t \in Sigs : MovesAt(t)
  <2>1. \A t \in Sigs \ {s} : KeptAt(t)
    BY <1>0, <1>1 DEF KeptAt, SignalsTypeOK
  <2> QED
    BY <1>0, <1>3, <2>1, KeptMoves
<1>5. AreFunctions
  BY <1>0, <1>1 DEF AreFunctions, SignalsTypeOK
<1>6. SignalsTypeOK'
  <2>1. senders' \in [Objects -> SUBSET Sigs] /\ halved' \subseteq Sigs \X Objects
    BY <1>0, <1>1 DEF SignalsTypeOK
  <2> QED
    BY <1>0, <1>1, <1>4, <1>5, <2>1, ListsMove DEF SignalsTypeOK
<1>7. PICK c \in conns[s] : c.id = n /\ c.dest = o
  <2>1. To(s, o) \in SUBSET Connection
    BY <1>2 DEF To
  <2>2. Numbers(To(s, o)) # {} /\ Numbers(To(s, o)) \subseteq 1..MaxConns
    BY <1>1, <2>1, NumbersType DEF Numbers
  <2>3. n \in Numbers(To(s, o))
    BY <2>2, FirstIs
  <2> QED
    BY <2>3 DEF Numbers, To
<1> HIDE DEF n
<1>8. \A d \in conns[s] : d \in conns'[s] <=> d # c
  <2>1. conns'[s] = {d \in conns[s] : d.id \notin {n}}
    BY <1>0, <1>1 DEF Without, SignalsTypeOK
  <2> QED
    BY <1>2, <1>7, <2>1 DEF Sound
<1>9. Knows'
  <2>1. Dests(s)' \subseteq Dests(s) /\ \A t \in Sigs \ {s} : Dests(t)' = Dests(t)
    <3>1. conns'[s] \subseteq conns[s] /\ \A t \in Sigs \ {s} : conns'[t] = conns[t]
      BY <1>0, <1>1 DEF Without, SignalsTypeOK
    <3> QED
      BY <3>1 DEF Dests
  <2>2. \A q \in Dests(s) : q # o => q \in Dests(s)'
    <3>1. SUFFICES ASSUME NEW q \in Dests(s), q # o PROVE q \in Dests(s)'
      OBVIOUS
    <3>2. PICK d \in conns[s] : d.dest = q
      BY <3>1 DEF Dests
    <3>3. d \in conns'[s]
      BY <1>7, <1>8, <3>1, <3>2
    <3> QED
      BY <3>2, <3>3 DEF Dests
  <2>3. o \in Dests(s)' => <<s, o>> \in halved'
    <3>1. SUFFICES ASSUME o \in Dests(s)' PROVE Cardinality(To(s, o)) > 1
      BY <1>1
    <3>2. PICK d \in conns'[s] : d.dest = o
      BY <3>1 DEF Dests
    <3>3. d \in To(s, o) /\ c \in To(s, o) /\ c # d
      BY <1>0, <1>1, <1>7, <1>8, <3>2 DEF To, Without, SignalsTypeOK
    <3>4. IsFiniteSet(To(s, o)) /\ IsFiniteSet({c, d})
      <4>1. To(s, o) \subseteq conns[s]
        BY DEF To
      <4>2. {c, d} \subseteq conns[s]
        BY <3>3, <4>1
      <4> QED
        BY <1>2, <4>1, <4>2, FS_Subset DEF Sound
    <3>5. Cardinality(To(s, o)) \in Nat /\ Cardinality(To(s, o)) # 0 /\ Cardinality(To(s, o)) # 1
      <4>1. ~\E x : To(s, o) = {x}
        BY <3>3
      <4> QED
        BY <3>3, <3>4, <4>1, FS_CardinalityType, FS_EmptySet, FS_Singleton
    <3> QED
      BY <3>5
  <2>4. senders'[o] = senders[o] \ {s} /\ \A q \in Objects \ {o} : senders'[q] = senders[q]
    BY <1>0, <1>1 DEF SignalsTypeOK
  <2>5. BothSidesKnow'
    <3>1. ASSUME NEW t \in Sigs \cap alive', NEW q \in Dests(t)', <<t, q>> \notin halved'
          PROVE  q \in alive' /\ t \in senders'[q]
      <4>1. q \in Dests(t) /\ ~(t = s /\ q = o)
        BY <2>1, <2>3, <3>1
      <4>2. <<t, q>> \notin halved
        BY <1>1, <3>1, <4>1
      <4>3. q \in alive /\ t \in senders[q] /\ q \in Objects
        BY <1>0, <1>1, <3>1, <4>1, <4>2, DestsType DEF Knows, BothSidesKnow
      <4> QED
        BY <1>1, <2>4, <4>1, <4>3
    <3>2. \A q \in Objects : senders'[q] \subseteq alive'
      BY <1>0, <1>1, <2>4 DEF Knows, BothSidesKnow
    <3> QED
      BY <3>1, <3>2 DEF BothSidesKnow
  <2>6. Returned'
    <3>1. ASSUME NEW q \in Objects, NEW t \in senders'[q] PROVE q \in Dests(t)'
      <4>1. t \in senders[q] /\ ~(t = s /\ q = o)
        BY <2>4, <3>1
      <4>2. q \in Dests(t) /\ t \in Sigs
        BY <1>0, <4>1 DEF Knows, Returned, SignalsTypeOK
      <4> QED
        BY <2>1, <2>2, <4>1, <4>2
    <3> QED
      BY <3>1 DEF Returned
  <2>7. Gone'
    <3>1. \A t \in Sigs \ alive' : conns'[t] = {}
      BY <1>0, <1>1 DEF Knows, Gone, SignalsTypeOK
    <3>2. \A q \in Objects \ alive' : senders'[q] = {}
      BY <1>0, <1>1, <2>4 DEF Knows, Gone
    <3> QED
      BY <3>1, <3>2 DEF Gone
  <2> QED
    BY <2>5, <2>6, <2>7 DEF Knows
<1>10. Emits'
  BY <1>0, <1>1, <1>4, EmitsStay
<1> QED
  BY <1>0, <1>4, <1>5, <1>6, <1>9, <1>10, ListsMove DEF IInv

(* disconnect_all, alone or in the destructor.                              *)
LEMMA DisconnectsAll ==
  ASSUME IInv, NEW s \in Sigs, s \in alive, DisconnectAll(s), made' = made, emits' = emits,
         \/ alive' = alive
         \/ alive' = alive \ {s} /\ ~Firing(s)
  PROVE  IInv'
<1>0. SignalsTypeOK /\ Lists /\ Knows /\ Emits
  BY DEF IInv
<1>1. /\ conns' = [conns EXCEPT ![s] = {}] /\ current' = [current EXCEPT ![s] = End]
      /\ senders' = [o \in Objects |-> IF o \in Dests(s) THEN senders[o] \ {s} ELSE senders[o]]
      /\ halved' = {h \in halved : h[1] # s}
  BY DEF DisconnectAll, Forgets
<1>2. MovesAt(s)
  <2>1. Moves(conns[s], current[s], made[s], {}, End, made[s])
    BY <1>0, AtType, MovesOut
  <2> QED
    BY <1>0, <1>1, <2>1 DEF MovesAt, SignalsTypeOK
<1>3. \A t \in Sigs : MovesAt(t)
  <2>1. \A t \in Sigs \ {s} : KeptAt(t)
    BY <1>0, <1>1 DEF KeptAt, SignalsTypeOK
  <2> QED
    BY <1>0, <1>2, <2>1, KeptMoves
<1>4. AreFunctions
  BY <1>0, <1>1 DEF AreFunctions, SignalsTypeOK
<1>5. SignalsTypeOK'
  <2>1. senders' \in [Objects -> SUBSET Sigs] /\ halved' \subseteq Sigs \X Objects
    BY <1>0, <1>1 DEF SignalsTypeOK
  <2>2. alive' \subseteq Sigs \cup Objects
    BY <1>0 DEF SignalsTypeOK
  <2> QED
    BY <1>0, <1>1, <1>3, <1>4, <2>1, <2>2, ListsMove DEF SignalsTypeOK
<1>6. Knows'
  <2>1. Dests(s)' = {} /\ \A t \in Sigs \ {s} : Dests(t)' = Dests(t)
    BY <1>0, <1>1 DEF Dests, SignalsTypeOK
  <2>2. \A q \in Objects : senders'[q] \subseteq senders[q] \ {s} /\ senders[q] \ {s} \subseteq senders'[q]
    BY <1>0, <1>1 DEF Knows, Returned
  <2>3. \A q \in Objects : q \in alive <=> q \in alive'
    BY SignalsAssumption DEF SignalsAssumption
  <2>4. BothSidesKnow'
    <3>1. ASSUME NEW t \in Sigs \cap alive', NEW q \in Dests(t)', <<t, q>> \notin halved'
          PROVE  q \in alive' /\ t \in senders'[q]
      <4>1. q \in Dests(t) /\ t # s
        BY <2>1, <3>1
      <4>2. <<t, q>> \notin halved
        BY <1>1, <3>1, <4>1
      <4>3. q \in alive /\ t \in senders[q] /\ q \in Objects
        BY <1>0, <3>1, <4>1, <4>2, DestsType DEF Knows, BothSidesKnow
      <4> QED
        BY <2>2, <2>3, <4>1, <4>3
    <3>2. \A q \in Objects : senders'[q] \subseteq alive'
      BY <1>0, <2>2 DEF Knows, BothSidesKnow
    <3> QED
      BY <3>1, <3>2 DEF BothSidesKnow
  <2>5. Returned'
    <3>1. ASSUME NEW q \in Objects, NEW t \in senders'[q] PROVE q \in Dests(t)'
      <4>1. t \in senders[q] /\ t # s
        BY <2>2, <3>1
      <4>2. q \in Dests(t) /\ t \in Sigs
        BY <1>0, <4>1 DEF Knows, Returned, SignalsTypeOK
      <4> QED
        BY <2>1, <4>1, <4>2
    <3> QED
      BY <3>1 DEF Returned
  <2>6. Gone'
    <3>1. \A t \in Sigs \ alive' : conns'[t] = {}
      BY <1>0, <1>1 DEF Knows, Gone, SignalsTypeOK
    <3>2. \A q \in Objects \ alive' : senders'[q] = {}
      BY <1>0, <2>2, <2>3 DEF Knows, Gone
    <3> QED
      BY <3>1, <3>2 DEF Gone
  <2> QED
    BY <2>4, <2>5, <2>6 DEF Knows
<1>7. Emits'
  <2>1. \A t \in Sigs : Firing(t) /\ t \in alive => t \in alive'
    OBVIOUS
  <2> QED
    BY <1>0, <1>3, <2>1, EmitsStay
<1> QED
  BY <1>0, <1>3, <1>4, <1>5, <1>6, <1>7, ListsMove DEF IInv

LEMMA CopiesSignal ==
  ASSUME IInv, NEW s \in Sigs, NEW t \in Sigs, CopySignal(s, t)
  PROVE  IInv'
<1> DEFINE new == Renumbered(conns[s], made[t])  n == Cardinality(conns[s])
<1>0. SignalsTypeOK /\ Lists /\ Knows /\ Emits
  BY DEF IInv
<1>1. /\ conns' = [conns EXCEPT ![t] = new] /\ current' = [current EXCEPT ![t] = End]
      /\ senders' = [o \in Objects |-> IF o \in Dests(s) THEN senders[o] \cup {t} ELSE senders[o]]
      /\ alive' = alive \cup {t} /\ made' = [made EXCEPT ![t] = made[t] + n]
      /\ s \in alive /\ t \notin alive /\ Dests(s) \subseteq alive /\ made[t] + n <= MaxConns
      /\ emits' = emits /\ halved' = halved
  BY <1>0 DEF CopySignal, SignalsTypeOK
<1>2. /\ conns[s] \in SUBSET Connection /\ Sound(conns[s], current[s], made[s])
      /\ made[t] \in 0..MaxConns /\ Sound(conns[t], current[t], made[t]) /\ conns[t] = {}
  BY <1>0, <1>1, AtType DEF Knows, Gone
<1>3. n \in Nat
  BY <1>2, FS_CardinalityType DEF Sound
<1>4. /\ IsFiniteSet(new)
      /\ \A c \in new : /\ c = [id |-> c.id, dest |-> c.dest]
                         /\ c.id \in (made[t] + 1)..(made[t] + n)
                         /\ c.dest \in {d.dest : d \in conns[s]}
      /\ {c.dest : c \in new} = {c.dest : c \in conns[s]}
      /\ \A c, d \in new : c.id = d.id => c = d
  <2>1. made[t] \in Nat
    BY <1>2
  <2> QED
    BY <1>2, <2>1, RenumberedIs DEF Sound
<1> HIDE DEF new, n
<1>5. MovesAt(t)
  <2>1. new \in SUBSET Connection /\ \A c \in new : made[t] < c.id /\ c.id <= made[t] + n
    <3>1. {d.dest : d \in conns[s]} \subseteq Objects
      BY <1>2 DEF Connection
    <3>2. ASSUME NEW c \in new PROVE c \in Connection /\ made[t] < c.id /\ c.id <= made[t] + n
      <4>1. c.id \in 1..MaxConns /\ made[t] < c.id /\ c.id <= made[t] + n /\ c.dest \in Objects
        BY <1>1, <1>2, <1>3, <1>4, <3>1, SignalsAssumption DEF SignalsAssumption
      <4>2. c = [id |-> c.id, dest |-> c.dest]
        BY <1>4
      <4> QED
        BY <4>1, <4>2 DEF Connection
    <3> QED
      BY <3>2
  <2>2. made[t] + n \in 0..MaxConns /\ made[t] <= made[t] + n
    BY <1>1, <1>2, <1>3, SignalsAssumption DEF SignalsAssumption
  <2>3. current[t] = End /\ current[t] \in 0..MaxConns
    BY <1>0, <1>2, AtType DEF Sound, Numbers
  <2>4. Moves({}, current[t], made[t], {} \cup new, current[t], made[t] + n)
    BY <1>2, <1>4, <2>1, <2>2, <2>3, MovesOn
  <2>5. {} \cup new = new
    OBVIOUS
  <2> QED
    BY <1>0, <1>1, <1>2, <2>3, <2>4, <2>5 DEF MovesAt, SignalsTypeOK
<1>6. \A u \in Sigs : MovesAt(u)
  <2>1. \A u \in Sigs \ {t} : KeptAt(u)
    BY <1>0, <1>1 DEF KeptAt, SignalsTypeOK
  <2> QED
    BY <1>0, <1>5, <2>1, KeptMoves
<1>7. AreFunctions
  BY <1>0, <1>1 DEF AreFunctions, SignalsTypeOK
<1>8. SignalsTypeOK'
  <2>1. senders' \in [Objects -> SUBSET Sigs] /\ alive' \subseteq Sigs \cup Objects
    BY <1>0, <1>1 DEF SignalsTypeOK
  <2> QED
    BY <1>0, <1>1, <1>6, <1>7, <2>1, ListsMove DEF SignalsTypeOK
<1>9. Knows'
  <2>1. Dests(t)' = Dests(s) /\ \A u \in Sigs \ {t} : Dests(u)' = Dests(u)
    BY <1>0, <1>1, <1>4 DEF Dests, SignalsTypeOK
  <2>2. \A q \in Objects : senders'[q] = IF q \in Dests(s) THEN senders[q] \cup {t} ELSE senders[q]
    BY <1>1
  <2>3. \A q \in Objects : t \notin senders[q]
    BY <1>0, <1>1 DEF Knows, BothSidesKnow
  <2>4. \A q \in Objects : q \in alive' <=> q \in alive
    BY <1>1, SignalsAssumption DEF SignalsAssumption
  <2>5. BothSidesKnow'
    <3>1. ASSUME NEW u \in Sigs \cap alive', NEW q \in Dests(u)', <<u, q>> \notin halved'
          PROVE  q \in alive' /\ u \in senders'[q]
      <4>1. CASE u = t
        <5>1. q \in Dests(s) /\ q \in Objects
          BY <1>0, <2>1, <3>1, <4>1, DestsType
        <5> QED
          BY <1>1, <2>2, <4>1, <5>1
      <4>2. CASE u # t
        <5>1. q \in Dests(u) /\ u \in alive /\ <<u, q>> \notin halved
          BY <1>1, <2>1, <3>1, <4>2
        <5>2. q \in alive /\ u \in senders[q] /\ q \in Objects
          BY <1>0, <3>1, <5>1, DestsType DEF Knows, BothSidesKnow
        <5> QED
          BY <1>1, <2>2, <5>2
      <4> QED
        BY <4>1, <4>2
    <3>2. \A q \in Objects : senders'[q] \subseteq alive'
      BY <1>0, <1>1, <2>2 DEF Knows, BothSidesKnow
    <3> QED
      BY <3>1, <3>2 DEF BothSidesKnow
  <2>6. Returned'
    <3>1. ASSUME NEW q \in Objects, NEW u \in senders'[q] PROVE q \in Dests(u)'
      <4>1. CASE u = t
        BY <2>1, <2>2, <2>3, <3>1, <4>1
      <4>2. CASE u # t
        <5>1. u \in senders[q]
          BY <2>2, <3>1, <4>2
        <5>2. q \in Dests(u) /\ u \in Sigs
          BY <1>0, <5>1 DEF Knows, Returned, SignalsTypeOK
        <5> QED
          BY <2>1, <4>2, <5>2
      <4> QED
        BY <4>1, <4>2
    <3> QED
      BY <3>1 DEF Returned
  <2>7. Gone'
    <3>1. \A u \in Sigs \ alive' : conns'[u] = {}
      BY <1>0, <1>1 DEF Knows, Gone, SignalsTypeOK
    <3>2. \A q \in Objects \ alive' : senders'[q] = {}
      BY <1>0, <1>1, <2>2, <2>4 DEF Knows, Gone
    <3> QED
      BY <3>1, <3>2 DEF Gone
  <2> QED
    BY <2>5, <2>6, <2>7 DEF Knows
<1>10. Emits'
  BY <1>0, <1>1, <1>6, EmitsStay
<1> QED
  BY <1>0, <1>6, <1>7, <1>8, <1>9, <1>10, ListsMove DEF IInv

LEMMA DestroysObject ==
  ASSUME IInv, NEW o \in Objects, DestroyObject(o)
  PROVE  IInv'
<1> DEFINE gone(s) == IF s \in senders[o] THEN Numbers(To(s, o)) ELSE {}
<1>0. SignalsTypeOK /\ Lists /\ Knows /\ Emits
  BY DEF IInv
<1>1. /\ conns' = [s \in Sigs |-> Without(conns[s], gone(s))]
      /\ current' = [s \in Sigs |-> Advanced(conns[s], current[s], gone(s))]
      /\ senders' = [senders EXCEPT ![o] = {}] /\ alive' = alive \ {o}
      /\ emits' = emits /\ made' = made /\ halved' = halved
  BY DEF DestroyObject
<1>2. \A t \in Sigs : conns'[t] = {c \in conns[t] : c.id \notin gone(t)}
  BY <1>1 DEF Without
<1>3. ASSUME NEW t \in Sigs, NEW c \in conns[t]
      PROVE  c \in conns'[t] <=> ~(t \in senders[o] /\ c.dest = o)
  <2>1. c.id \in gone(t) <=> t \in senders[o] /\ \E d \in conns[t] : d.dest = o /\ d.id = c.id
    BY DEF Numbers, To
  <2>2. \A d \in conns[t] : d.id = c.id => d = c
    BY <1>0, <1>3, AtType DEF Sound
  <2> QED
    BY <1>2, <1>3, <2>1, <2>2
<1>4. \A t \in Sigs : MovesAt(t)
  <2>1. SUFFICES ASSUME NEW t \in Sigs PROVE MovesAt(t)
    OBVIOUS
  <2>2. Moves(conns[t], current[t], made[t], Without(conns[t], gone(t)),
              Advanced(conns[t], current[t], gone(t)), made[t])
    <3>1. /\ conns[t] \in SUBSET Connection /\ current[t] \in 0..MaxConns
          /\ made[t] \in 0..MaxConns /\ Sound(conns[t], current[t], made[t])
      BY <1>0, AtType
    <3> HIDE DEF gone
    <3> QED
      BY <3>1, MovesOff
  <2> HIDE DEF gone
  <2> QED
    BY <1>1, <2>2 DEF MovesAt
<1> HIDE DEF gone
<1>5. AreFunctions
  BY <1>0, <1>1 DEF AreFunctions, SignalsTypeOK
<1>6. SignalsTypeOK'
  <2>1. senders' \in [Objects -> SUBSET Sigs] /\ alive' \subseteq Sigs \cup Objects
    BY <1>0, <1>1 DEF SignalsTypeOK
  <2> QED
    BY <1>0, <1>1, <1>4, <1>5, <2>1, ListsMove DEF SignalsTypeOK
<1>7. Knows'
  <2>1. ASSUME NEW t \in Sigs, NEW q
        PROVE  q \in Dests(t)' <=> q \in Dests(t) /\ ~(t \in senders[o] /\ q = o)
    <3>1. q \in Dests(t)' <=> \E c \in conns'[t] : c.dest = q
      BY DEF Dests
    <3>2. q \in Dests(t) <=> \E c \in conns[t] : c.dest = q
      BY DEF Dests
    <3>3. \A c \in conns'[t] : c \in conns[t]
      BY <1>2
    <3> QED
      BY <1>3, <3>1, <3>2, <3>3
  <2>2. senders'[o] = {} /\ \A q \in Objects \ {o} : senders'[q] = senders[q]
    BY <1>0, <1>1 DEF SignalsTypeOK
  <2>3. o \notin Sigs
    BY SignalsAssumption DEF SignalsAssumption
  <2>4. BothSidesKnow'
    <3>1. ASSUME NEW t \in Sigs \cap alive', NEW q \in Dests(t)', <<t, q>> \notin halved'
          PROVE  q \in alive' /\ t \in senders'[q]
      <4>1. q \in Dests(t) /\ ~(t \in senders[o] /\ q = o) /\ t \in alive /\ <<t, q>> \notin halved
        BY <1>1, <2>1, <3>1
      <4>2. q \in alive /\ t \in senders[q] /\ q \in Objects
        BY <1>0, <3>1, <4>1, DestsType DEF Knows, BothSidesKnow
      <4> QED
        BY <1>1, <2>2, <4>1, <4>2
    <3>2. \A q \in Objects : senders'[q] \subseteq alive'
      <4>1. \A q \in Objects : senders[q] \subseteq alive /\ senders[q] \subseteq Sigs
        BY <1>0 DEF Knows, BothSidesKnow, SignalsTypeOK
      <4> QED
        BY <1>1, <2>2, <2>3, <4>1
    <3> QED
      BY <3>1, <3>2 DEF BothSidesKnow
  <2>5. Returned'
    <3>1. ASSUME NEW q \in Objects, NEW t \in senders'[q] PROVE q \in Dests(t)'
      <4>1. t \in senders[q] /\ q # o
        BY <2>2, <3>1
      <4>2. q \in Dests(t) /\ t \in Sigs
        BY <1>0, <4>1 DEF Knows, Returned, SignalsTypeOK
      <4> QED
        BY <2>1, <4>1, <4>2
    <3> QED
      BY <3>1 DEF Returned
  <2>6. Gone'
    <3>1. \A t \in Sigs \ alive' : conns'[t] = {}
      BY <1>0, <1>1, <1>2, <2>3 DEF Knows, Gone
    <3>2. \A q \in Objects \ alive' : senders'[q] = {}
      BY <1>0, <1>1, <2>2 DEF Knows, Gone
    <3> QED
      BY <3>1, <3>2 DEF Gone
  <2> QED
    BY <2>4, <2>5, <2>6 DEF Knows
<1>8. Emits'
  <2>1. \A t \in Sigs : Firing(t) /\ t \in alive => t \in alive'
    BY <1>1, SignalsAssumption DEF SignalsAssumption
  <2> QED
    BY <1>0, <1>1, <1>4, <2>1, EmitsStay
<1> QED
  BY <1>0, <1>4, <1>5, <1>6, <1>7, <1>8, ListsMove DEF IInv

(* The connections to one object, each with another in its place.           *)
LEMMA RedirectedIs ==
  ASSUME NEW list \in SUBSET Connection, IsFiniteSet(list), NEW p \in Objects,
         \A c, d \in list : c.id = d.id => c = d
  PROVE  LET to == {[c EXCEPT !.dest = p] : c \in list} IN
         /\ to \in SUBSET Connection /\ IsFiniteSet(to)
         /\ \A c, d \in to : c.id = d.id => c = d
         /\ {c.dest : c \in to} = IF list = {} THEN {} ELSE {p}
<1> DEFINE At(c) == [c EXCEPT !.dest = p]
           to == {[c EXCEPT !.dest = p] : c \in list}
           f == [c \in list |-> At(c)]
<1>1. to = {At(c) : c \in list}
  OBVIOUS
<1>2. \A c \in list : At(c) \in Connection /\ At(c).id = c.id /\ At(c).dest = p
  BY DEF Connection
<1> HIDE DEF At, to
<1>3. IsFiniteSet(to)
  <2>1. f \in Surjection(list, to)
    <3>1. f \in [list -> to]
      BY <1>1
    <3>2. \A d \in to : \E c \in list : f[c] = d
      BY <1>1
    <3> QED
      BY <3>1, <3>2 DEF Surjection
  <2> HIDE DEF f
  <2> QED
    BY <2>1, FS_Surjection
<1>4. to \in SUBSET Connection
  BY <1>1, <1>2
<1>5. \A c, d \in to : c.id = d.id => c = d
  BY <1>1, <1>2
<1>6. {c.dest : c \in to} = IF list = {} THEN {} ELSE {p}
  BY <1>1, <1>2
<1> QED
  BY <1>3, <1>4, <1>5, <1>6 DEF to

LEMMA CopiesObject ==
  ASSUME IInv, NEW o \in Objects, NEW p \in Objects, CopyObject(o, p)
  PROVE  IInv'
<1> DEFINE to(s) == {[c EXCEPT !.dest = p] : c \in To(s, o)}
           doubled(s) == IF s \notin senders[o] THEN {} ELSE Renumbered(to(s), made[s])
           n(s) == Cardinality(doubled(s))
<1>0. SignalsTypeOK /\ Lists /\ Knows /\ Emits
  BY DEF IInv
<1>1. /\ conns' = [s \in Sigs |-> conns[s] \cup doubled(s)]
      /\ made' = [s \in Sigs |-> made[s] + n(s)]
      /\ senders' = [senders EXCEPT ![p] = senders[o]] /\ alive' = alive \cup {p}
      /\ o \in alive /\ p \notin alive
      /\ \A s \in Sigs : made[s] + n(s) <= MaxConns
      /\ current' = current /\ emits' = emits /\ halved' = halved
  BY <1>0 DEF CopyObject, SignalsTypeOK
<1>2. ASSUME NEW s \in Sigs
      PROVE  /\ IsFiniteSet(doubled(s)) /\ doubled(s) \in SUBSET Connection
             /\ n(s) \in Nat
             /\ \A c \in doubled(s) : made[s] < c.id /\ c.id <= made[s] + n(s)
             /\ \A c, d \in doubled(s) : c.id = d.id => c = d
             /\ {c.dest : c \in doubled(s)} = IF s \in senders[o] THEN {p} ELSE {}
  <2>1. CASE s \notin senders[o]
    <3>1. doubled(s) = {}
      BY <2>1
    <3> HIDE DEF doubled
    <3> QED
      BY <2>1, <3>1, FS_EmptySet
  <2>2. CASE s \in senders[o]
    <3>1. doubled(s) = Renumbered(to(s), made[s])
      BY <2>2
    <3>2. /\ conns[s] \in SUBSET Connection /\ made[s] \in 0..MaxConns
          /\ Sound(conns[s], current[s], made[s])
      BY <1>0, <1>2, AtType
    <3>3. /\ To(s, o) \in SUBSET Connection /\ IsFiniteSet(To(s, o))
          /\ \A c, d \in To(s, o) : c.id = d.id => c = d
      <4>1. To(s, o) \subseteq conns[s]
        BY DEF To
      <4> QED
        BY <3>2, <4>1, FS_Subset DEF Sound
    <3>4. To(s, o) # {}
      <4>1. o \in Dests(s)
        BY <1>0, <2>2 DEF Knows, Returned
      <4> QED
        BY <4>1 DEF Dests, To
    <3>5. /\ to(s) \in SUBSET Connection /\ IsFiniteSet(to(s))
          /\ \A c, d \in to(s) : c.id = d.id => c = d
          /\ {c.dest : c \in to(s)} = {p}
      BY <3>3, <3>4, RedirectedIs
    <3> HIDE DEF to, doubled
    <3>6. /\ IsFiniteSet(doubled(s)) /\ n(s) = Cardinality(to(s))
          /\ \A c \in doubled(s) : /\ c = [id |-> c.id, dest |-> c.dest]
                                    /\ c.id \in (made[s] + 1)..(made[s] + Cardinality(to(s)))
                                    /\ c.dest \in {d.dest : d \in to(s)}
          /\ {c.dest : c \in doubled(s)} = {c.dest : c \in to(s)}
          /\ \A c, d \in doubled(s) : c.id = d.id => c = d
      <4> DEFINE L == to(s)  from == made[s]
      <4>1. from \in Nat
        BY <3>2
      <4>2. /\ L \in SUBSET Connection /\ IsFiniteSet(L)
            /\ \A c, d \in L : c.id = d.id => c = d
        BY <3>5
      <4>3. doubled(s) = Renumbered(L, from)
        BY <3>1
      <4>4. n(s) = Cardinality(Renumbered(L, from))
        BY <3>1
      <4> HIDE DEF L, from
      <4>5. LET new == Renumbered(L, from) IN
            /\ IsFiniteSet(new) /\ Cardinality(new) = Cardinality(L)
            /\ \A c \in new : /\ c = [id |-> c.id, dest |-> c.dest]
                              /\ c.id \in (from + 1)..(from + Cardinality(L))
                              /\ c.dest \in {d.dest : d \in L}
            /\ {c.dest : c \in new} = {c.dest : c \in L}
            /\ \A c, d \in new : c.id = d.id => c = d
        BY <4>1, <4>2, RenumberedIs
      <4> QED
        BY <4>3, <4>4, <4>5 DEF L, from
    <3>7. n(s) \in Nat
      BY <3>6, FS_CardinalityType
    <3>8. made[s] + n(s) <= MaxConns
      BY <1>1
    <3> HIDE DEF n
    <3>9. ASSUME NEW c \in doubled(s)
          PROVE  c \in Connection /\ made[s] < c.id /\ c.id <= made[s] + n(s)
      <4>1. c = [id |-> c.id, dest |-> c.dest] /\ c.dest = p /\ c.id \in (made[s] + 1)..(made[s] + n(s))
        BY <3>5, <3>6
      <4>2. c.id \in 1..MaxConns /\ made[s] < c.id /\ c.id <= made[s] + n(s)
        BY <3>2, <3>7, <3>8, <4>1, SignalsAssumption DEF SignalsAssumption
      <4> QED
        BY <4>1, <4>2 DEF Connection
    <3> QED
      BY <2>2, <3>5, <3>6, <3>7, <3>9
  <2> QED
    BY <2>1, <2>2
<1> HIDE DEF doubled, n
<1>3. \A s \in Sigs : MovesAt(s)
  <2>1. SUFFICES ASSUME NEW s \in Sigs PROVE MovesAt(s)
    OBVIOUS
  <2>2. /\ conns[s] \in SUBSET Connection /\ current[s] \in 0..MaxConns
        /\ made[s] \in 0..MaxConns /\ Sound(conns[s], current[s], made[s])
    BY <1>0, AtType
  <2>3. made[s] + n(s) \in 0..MaxConns /\ made[s] <= made[s] + n(s)
    BY <1>1, <1>2, <2>2, SignalsAssumption DEF SignalsAssumption
  <2>4. Moves(conns[s], current[s], made[s], conns[s] \cup doubled(s), current[s], made[s] + n(s))
    BY <1>2, <2>2, <2>3, MovesOn
  <2> QED
    BY <1>1, <2>4 DEF MovesAt
<1>4. AreFunctions
  BY <1>0, <1>1 DEF AreFunctions, SignalsTypeOK
<1>5. SignalsTypeOK'
  <2>1. senders' \in [Objects -> SUBSET Sigs] /\ alive' \subseteq Sigs \cup Objects
    BY <1>0, <1>1 DEF SignalsTypeOK
  <2> QED
    BY <1>0, <1>1, <1>3, <1>4, <2>1, ListsMove DEF SignalsTypeOK
<1>6. Knows'
  <2>1. ASSUME NEW s \in Sigs
        PROVE  Dests(s)' = Dests(s) \cup (IF s \in senders[o] THEN {p} ELSE {})
    <3>1. Dests(s)' = {c.dest : c \in conns[s] \cup doubled(s)}
      BY <1>1 DEF Dests
    <3>2. Dests(s)' = Dests(s) \cup {c.dest : c \in doubled(s)}
      BY <3>1 DEF Dests
    <3>3. {c.dest : c \in doubled(s)} = IF s \in senders[o] THEN {p} ELSE {}
      BY <1>2
    <3> QED
      BY <3>2, <3>3
  <2>2. senders'[p] = senders[o] /\ \A q \in Objects \ {p} : senders'[q] = senders[q]
    BY <1>0, <1>1 DEF SignalsTypeOK
  <2>3. senders[p] = {} /\ p \notin Sigs
    BY <1>0, <1>1, SignalsAssumption DEF Knows, Gone, SignalsAssumption
  <2>4. BothSidesKnow'
    <3>1. ASSUME NEW s \in Sigs \cap alive', NEW q \in Dests(s)', <<s, q>> \notin halved'
          PROVE  q \in alive' /\ s \in senders'[q]
      <4>1. s \in alive /\ <<s, q>> \notin halved
        BY <1>1, <2>3, <3>1
      <4>2. CASE q \in Dests(s)
        <5>1. q \in alive /\ s \in senders[q] /\ q \in Objects /\ q # p
          BY <1>0, <1>1, <3>1, <4>1, <4>2, DestsType DEF Knows, BothSidesKnow
        <5> QED
          BY <1>1, <2>2, <5>1
      <4>3. CASE q \notin Dests(s)
        <5>1. q = p /\ s \in senders[o]
          BY <2>1, <3>1, <4>3
        <5> QED
          BY <1>1, <2>2, <5>1
      <4> QED
        BY <4>2, <4>3
    <3>2. \A q \in Objects : senders'[q] \subseteq alive'
      BY <1>0, <1>1, <2>2 DEF Knows, BothSidesKnow
    <3> QED
      BY <3>1, <3>2 DEF BothSidesKnow
  <2>5. Returned'
    <3>1. ASSUME NEW q \in Objects, NEW s \in senders'[q] PROVE q \in Dests(s)'
      <4>1. CASE q = p
        <5>1. s \in senders[o] /\ s \in Sigs
          BY <1>0, <2>2, <3>1, <4>1 DEF SignalsTypeOK
        <5> QED
          BY <2>1, <4>1, <5>1
      <4>2. CASE q # p
        <5>1. s \in senders[q] /\ s \in Sigs
          BY <1>0, <2>2, <3>1, <4>2 DEF SignalsTypeOK
        <5>2. q \in Dests(s)
          BY <1>0, <5>1 DEF Knows, Returned
        <5> QED
          BY <2>1, <5>1, <5>2
      <4> QED
        BY <4>1, <4>2
    <3> QED
      BY <3>1 DEF Returned
  <2>6. Gone'
    <3>1. ASSUME NEW s \in Sigs \ alive' PROVE conns'[s] = {}
      <4>1. s \notin alive /\ conns[s] = {}
        BY <1>0, <1>1, <3>1 DEF Knows, Gone
      <4>2. s \notin senders[o]
        BY <1>0, <4>1 DEF Knows, BothSidesKnow
      <4>3. doubled(s) = {}
        BY <1>2, <4>2
      <4> QED
        BY <1>1, <4>1, <4>3
    <3>2. \A q \in Objects \ alive' : senders'[q] = {}
      BY <1>0, <1>1, <2>2 DEF Knows, Gone
    <3> QED
      BY <3>1, <3>2 DEF Gone
  <2> QED
    BY <2>4, <2>5, <2>6 DEF Knows
<1>7. Emits'
  <2>1. \A t \in Sigs : Firing(t) /\ t \in alive => t \in alive'
    BY <1>1
  <2> QED
    BY <1>0, <1>1, <1>3, <2>1, EmitsStay
<1> QED
  BY <1>0, <1>3, <1>4, <1>5, <1>6, <1>7, ListsMove DEF IInv

-----------------------------------------------------------------------------
(* The actions of an emit                                                   *)

LEMMA KnowsStays ==
  ASSUME Knows, UNCHANGED <<conns, senders, alive, halved>>
  PROVE  Knows'
BY DEF Knows, BothSidesKnow, Returned, Gone, Dests

LEMMA Begins ==
  ASSUME IInv, NEW s \in Sigs, EmitBegins(s)
  PROVE  IInv'
<1> DEFINE new == [sig |-> s, start |-> Ids(s), own |-> <<>>, called |-> {}, nested |-> FALSE]
           old == [i \in DOMAIN emits |-> [emits[i] EXCEPT !.nested = emits[i].nested \/ emits[i].sig = s]]
<1>0. SignalsTypeOK /\ Lists /\ Knows /\ Emits
  BY DEF IInv
<1>1. /\ current' = [current EXCEPT ![s] = First(Ids(s))] /\ emits' = Append(old, new)
      /\ s \in alive /\ Len(emits) < MaxDepth
      /\ conns' = conns /\ senders' = senders /\ alive' = alive /\ made' = made /\ halved' = halved
  BY DEF EmitBegins
<1>2. emits \in Seq(Emit) /\ Len(emits) \in Nat /\ DOMAIN emits = 1..Len(emits)
  BY <1>0, LenProperties DEF SignalsTypeOK
<1>3. /\ conns[s] \in SUBSET Connection /\ made[s] \in 0..MaxConns
      /\ Sound(conns[s], current[s], made[s])
  BY <1>0, AtType
<1>4. Ids(s) \subseteq 1..MaxConns
  BY <1>3, NumbersType DEF Ids
<1>5. /\ First(Ids(s)) \in Ids(s) \cup {End} /\ First(Ids(s)) \in 0..MaxConns
      /\ Ids(s) # {} => First(Ids(s)) # End /\ \A i \in Ids(s) : First(Ids(s)) <= i
  BY <1>4, FirstIs, SignalsAssumption DEF End, SignalsAssumption
<1>6. Ids(s) \subseteq Ahead(First(Ids(s)))
  <2>1. SUFFICES ASSUME NEW i \in Ids(s) PROVE i \in Ahead(First(Ids(s)))
    OBVIOUS
  <2>2. i \in 1..MaxConns /\ First(Ids(s)) # End /\ First(Ids(s)) <= i
    BY <1>4, <1>5
  <2>3. First(Ids(s)) \in Nat
    BY <1>5
  <2>4. i >= First(Ids(s))
    BY <2>2, <2>3
  <2> QED
    BY <2>2, <2>4 DEF Ahead
<1>7. new \in Emit
  BY <1>4, EmptySeq DEF Emit
<1>8. ASSUME NEW i \in DOMAIN emits
      PROVE  /\ old[i] \in Emit /\ old[i].sig = emits[i].sig /\ old[i].start = emits[i].start
             /\ old[i].own = emits[i].own /\ old[i].called = emits[i].called
             /\ old[i].nested = (emits[i].nested \/ emits[i].sig = s)
  <2>1. emits[i] \in Emit
    BY <1>0, <1>8, EmitType
  <2> QED
    BY <1>8, <2>1 DEF Emit
<1>9. old \in Seq(Emit) /\ Len(old) = Len(emits)
  <2>1. old \in [1..Len(emits) -> Emit]
    BY <1>2, <1>8
  <2> HIDE DEF old
  <2> QED
    BY <1>2, <2>1, IsASeq, LenProperties
<1> HIDE DEF old, new
<1>10. /\ emits' \in Seq(Emit) /\ Len(emits') = Len(emits) + 1
       /\ \A i \in DOMAIN emits : emits'[i] = old[i]
       /\ emits'[Len(emits) + 1] = new
       /\ DOMAIN emits' = 1..(Len(emits) + 1)
  <2>1. /\ Append(old, new) \in Seq(Emit) /\ Len(Append(old, new)) = Len(old) + 1
        /\ \A i \in 1..Len(old) : Append(old, new)[i] = old[i]
        /\ Append(old, new)[Len(old) + 1] = new
    BY <1>7, <1>9, AppendProperties
  <2>2. DOMAIN Append(old, new) = 1..Len(Append(old, new))
    BY <2>1, LenProperties
  <2> QED
    BY <1>1, <1>2, <1>9, <2>1, <2>2
<1>11. SignalsTypeOK'
  <2>1. current' \in [Sigs -> 0..MaxConns]
    BY <1>0, <1>1, <1>5 DEF SignalsTypeOK
  <2>2. Len(emits') <= MaxDepth
    BY <1>1, <1>2, <1>10, SignalsAssumption DEF SignalsAssumption
  <2> QED
    BY <1>0, <1>1, <1>10, <2>1, <2>2 DEF SignalsTypeOK
<1>12. current'[s] = First(Ids(s)) /\ \A t \in Sigs \ {s} : current'[t] = current[t]
  BY <1>0, <1>1 DEF SignalsTypeOK
<1>13. Lists'
  <2>1. SUFFICES ASSUME NEW t \in Sigs PROVE Sound(conns[t], current'[t], made[t])
    BY <1>1 DEF Lists
  <2>2. Sound(conns[t], current[t], made[t])
    BY <1>0, AtType
  <2> QED
    BY <1>5, <1>12, <2>2 DEF Sound, Ids
<1>14. Knows'
  BY <1>0, <1>1, KnowsStays
<1>15. ASSUME NEW i \in DOMAIN emits PROVE Running(i)'
  <2> DEFINE e == emits[i]  t == e.sig  f == old[i]
  <2>1. e \in Emit /\ t \in Sigs /\ i \in 1..Len(emits)
    BY <1>0, <1>15, EmitType
  <2>2. t \in alive /\ Reaches(e, conns[t], current[t], made[t])
    BY <1>0, <1>15 DEF Emits, Running
  <2>3. emits'[i] = f /\ f.sig = t /\ f.start = e.start /\ f.own = e.own /\ f.called = e.called
    BY <1>8, <1>10, <1>15
  <2>4. f.nested = (e.nested \/ t = s)
    BY <1>8, <1>15
  <2> HIDE DEF e, f
  <2>5. Reaches(f, conns[t], current'[t], made[t])
    <3>1. CASE t = s
      <4>1. f.start \subseteq 1..made[t]
        BY <2>2, <2>3 DEF Reaches
      <4>2. f.start \cap Numbers(conns[t]) \subseteq f.called \cup Ahead(current'[t])
        BY <1>6, <1>12, <3>1 DEF Ids
      <4> QED
        BY <2>4, <3>1, <4>1, <4>2 DEF Reaches
    <3>2. CASE t # s
      <4>1. current'[t] = current[t]
        BY <1>12, <2>1, <3>2
      <4> HIDE DEF t
      <4> QED
        BY <2>2, <2>3, <2>4, <3>2, <4>1 DEF Reaches
    <3> QED
      BY <3>1, <3>2
  <2>6. \A j \in DOMAIN emits' : i < j /\ emits'[j].sig = t => f.nested
    <3>1. SUFFICES ASSUME NEW j \in DOMAIN emits', i < j, emits'[j].sig = t PROVE f.nested
      OBVIOUS
    <3>2. CASE j \in DOMAIN emits
      <4>1. emits[j].sig = t
        BY <1>8, <1>10, <3>1, <3>2
      <4>2. e.nested
        BY <1>0, <1>15, <3>1, <3>2, <4>1 DEF Emits, Running, e
      <4> QED
        BY <2>4, <4>2
    <3>3. CASE j \notin DOMAIN emits
      <4>1. j = Len(emits) + 1
        BY <1>2, <1>10, <3>1, <3>3
      <4>2. t = s
        BY <1>10, <3>1, <4>1 DEF new
      <4> QED
        BY <2>4, <4>2
    <3> QED
      BY <3>2, <3>3
  <2> QED
    BY <1>1, <2>2, <2>3, <2>5, <2>6 DEF Running
<1>16. ASSUME NEW i \in DOMAIN emits', i = Len(emits) + 1 PROVE Running(i)'
  <2>1. new.sig = s /\ new.start = Ids(s) /\ new.own = <<>> /\ new.called = {} /\ new.nested = FALSE
    BY DEF new
  <2>2. Ids(s) \subseteq 1..made[s]
    BY <1>3, <1>4 DEF Sound, Ids, Numbers
  <2>3. IsInjective(<<>>) /\ DOMAIN <<>> = {}
    BY EmptySeq DEF IsInjective
  <2>4. Reaches(new, conns[s], current'[s], made[s])
    BY <1>6, <1>12, <2>1, <2>2, <2>3 DEF Reaches
  <2>5. \A j \in DOMAIN emits' : ~(i < j)
    BY <1>2, <1>10, <1>16
  <2>6. emits'[i] = new
    BY <1>10, <1>16
  <2> HIDE DEF new
  <2> QED
    BY <1>1, <2>1, <2>4, <2>5, <2>6 DEF Running
<1>17. Emits'
  <2>1. \A i \in DOMAIN emits' : i \in DOMAIN emits \/ i = Len(emits) + 1
    BY <1>2, <1>10
  <2> QED
    BY <1>15, <1>16, <2>1 DEF Emits
<1> QED
  BY <1>11, <1>13, <1>14, <1>17 DEF IInv

LEMMA Calls ==
  ASSUME IInv, EmitCalls
  PROVE  IInv'
<1> DEFINE last == Len(emits)  s == emits[last].sig  id == current[s]  next == After(conns[s], id)
           Called(i) ==
             [emits[i] EXCEPT
                !.called = IF emits[i].sig = s THEN emits[i].called \cup {id} ELSE emits[i].called,
                !.own = IF i = last THEN Append(emits[i].own, id) ELSE emits[i].own]
<1>0. SignalsTypeOK /\ Lists /\ Knows /\ Emits
  BY DEF IInv
<1>1. /\ emits # <<>> /\ id # End
      /\ current' = [current EXCEPT ![s] = next]
      /\ emits' = [i \in DOMAIN emits |-> Called(i)]
      /\ conns' = conns /\ senders' = senders /\ alive' = alive /\ made' = made /\ halved' = halved
  BY DEF EmitCalls, Innermost
<1>2. emits \in Seq(Emit) /\ last \in Nat /\ DOMAIN emits = 1..last /\ last \in DOMAIN emits
  <2>1. emits \in Seq(Emit) /\ last \in Nat /\ DOMAIN emits = 1..last
    BY <1>0, LenProperties DEF SignalsTypeOK
  <2>2. last # 0
    BY <1>1, <2>1, EmptySeq
  <2> QED
    BY <2>1, <2>2
<1>3. s \in Sigs
  BY <1>0, <1>2, EmitType
<1>4. /\ conns[s] \in SUBSET Connection /\ made[s] \in 0..MaxConns /\ id \in 0..MaxConns
      /\ Sound(conns[s], id, made[s])
  BY <1>0, <1>3, AtType
<1>5. Ids(s) \subseteq 1..MaxConns
  BY <1>4, NumbersType DEF Ids
<1>6. id \in Ids(s) /\ id \in 1..MaxConns /\ id <= made[s]
  <2>1. id \in Ids(s)
    BY <1>1, <1>4 DEF Sound, Ids
  <2> HIDE DEF id
  <2> QED
    BY <1>4, <1>5, <2>1 DEF Sound, Ids, Numbers
<1> HIDE DEF id
<1>7. /\ next \in Ids(s) \cup {End} /\ next \in 0..MaxConns
      /\ \A i \in Ids(s) : i > id => next # End /\ next <= i
      /\ next # End => next > id
  <2> DEFINE later == {i \in Ids(s) : i > id}
  <2>1. next = First(later)
    BY DEF After, Ids
  <2>2. later \subseteq 1..MaxConns
    BY <1>5
  <2>3. /\ First(later) \in later \cup {End} /\ (First(later) = End <=> later = {})
        /\ later # {} => First(later) \in later /\ \A k \in later : First(later) <= k
    BY <2>2, FirstIs
  <2> HIDE DEF next
  <2>4. next # End => next \in Ids(s) /\ next > id
    BY <2>1, <2>3
  <2>5. \A i \in Ids(s) : i > id => i \in later
    OBVIOUS
  <2> HIDE DEF later
  <2>6. \A i \in Ids(s) : i > id => next # End /\ next <= i
    BY <2>1, <2>3, <2>5
  <2>7. next \in 0..MaxConns
    BY <1>5, <2>4, SignalsAssumption DEF End, SignalsAssumption
  <2> QED
    BY <2>4, <2>6, <2>7
<1> HIDE DEF next
<1>8. current'[s] = next /\ \A t \in Sigs \ {s} : current'[t] = current[t]
  BY <1>0, <1>1, <1>3 DEF SignalsTypeOK
<1>9. ASSUME NEW i \in DOMAIN emits
      PROVE  /\ Called(i) \in Emit /\ Called(i).sig = emits[i].sig
             /\ Called(i).start = emits[i].start /\ Called(i).nested = emits[i].nested
             /\ Called(i).called = IF emits[i].sig = s THEN emits[i].called \cup {id} ELSE emits[i].called
             /\ Called(i).own = IF i = last THEN Append(emits[i].own, id) ELSE emits[i].own
  <2>1. emits[i] \in Emit
    BY <1>0, <1>9, EmitType
  <2>2. emits[i].called \cup {id} \in SUBSET (1..MaxConns)
    BY <1>6, <2>1 DEF Emit
  <2>3. Append(emits[i].own, id) \in Seq(1..MaxConns)
    BY <1>6, <2>1, AppendProperties DEF Emit
  <2> HIDE DEF s, last
  <2> QED
    BY <2>1, <2>2, <2>3 DEF Emit
<1> HIDE DEF Called
<1>10. /\ emits' \in Seq(Emit) /\ Len(emits') = last /\ DOMAIN emits' = DOMAIN emits
       /\ \A i \in DOMAIN emits : emits'[i] = Called(i)
  <2>1. emits' \in [1..last -> Emit]
    BY <1>1, <1>2, <1>9
  <2>2. emits' \in Seq(Emit)
    BY <1>2, <2>1, IsASeq
  <2>3. DOMAIN emits' = 1..last
    BY <2>1
  <2>4. Len(emits') = last
    BY <1>2, <2>2, <2>3, LenProperties
  <2> QED
    BY <1>1, <1>2, <2>2, <2>3, <2>4
<1>11. SignalsTypeOK'
  <2>1. current' \in [Sigs -> 0..MaxConns]
    BY <1>0, <1>1, <1>7 DEF SignalsTypeOK
  <2> QED
    BY <1>0, <1>1, <1>10, <2>1 DEF SignalsTypeOK
<1>12. Lists'
  <2>1. SUFFICES ASSUME NEW t \in Sigs PROVE Sound(conns[t], current'[t], made[t])
    BY <1>1 DEF Lists
  <2>2. Sound(conns[t], current[t], made[t])
    BY <1>0, AtType
  <2> QED
    BY <1>7, <1>8, <2>2 DEF Sound, Ids
<1>13. Knows'
  BY <1>0, <1>1, KnowsStays
<1>14. ASSUME NEW i \in DOMAIN emits PROVE Running(i)'
  <2> DEFINE e == emits[i]  t == e.sig  f == Called(i)
  <2>1. e \in Emit /\ t \in Sigs /\ i \in 1..last
    BY <1>0, <1>14, EmitType
  <2>2. t \in alive /\ Reaches(e, conns[t], current[t], made[t])
    BY <1>0, <1>14 DEF Emits, Running
  <2>3. /\ emits'[i] = f /\ f.sig = t /\ f.start = e.start /\ f.nested = e.nested
        /\ f.called = IF t = s THEN e.called \cup {id} ELSE e.called
        /\ f.own = IF i = last THEN Append(e.own, id) ELSE e.own
    BY <1>9, <1>10, <1>14
  <2>4. i # last /\ t = s => e.nested
    <3>1. i # last /\ t = s => i < last /\ emits[last].sig = t
      BY <1>2, <2>1
    <3> QED
      BY <1>0, <1>2, <1>14, <3>1 DEF Emits, Running
  <2>5. \A j \in DOMAIN emits' : i < j /\ emits'[j].sig = t => f.nested
    <3>1. \A j \in DOMAIN emits : emits'[j].sig = emits[j].sig
      BY <1>9, <1>10
    <3> QED
      BY <1>0, <1>10, <1>14, <2>3, <3>1 DEF Emits, Running
  <2>6. i = last => t = s
    OBVIOUS
  <2> HIDE DEF e, f, t, s, last
  <2>7. Reaches(f, conns[t], current'[t], made[t])
    <3>1. CASE t # s
      <4>1. current'[t] = current[t] /\ f.own = e.own /\ f.called = e.called
        BY <1>8, <2>1, <2>3, <2>6, <3>1
      <4> QED
        BY <2>2, <2>3, <4>1 DEF Reaches
    <3>2. CASE t = s
      <4>1. Reaches(e, conns[s], id, made[s])
        BY <2>2, <3>2 DEF id
      <4>2. f.start \subseteq 1..made[s]
        BY <2>3, <4>1 DEF Reaches
      <4>3. f.start \cap Numbers(conns[s]) \subseteq f.called \cup Ahead(next)
        <5>1. SUFFICES ASSUME NEW k \in f.start \cap Numbers(conns[s]) PROVE k \in f.called \cup Ahead(next)
          OBVIOUS
        <5>2. k \in Ids(s) /\ k \in 1..MaxConns
          BY <1>5, <5>1 DEF Ids
        <5>3. k \in e.called \/ k >= id
          BY <2>3, <4>1, <5>1 DEF Reaches, Ahead
        <5>4. k > id => k \in Ahead(next)
          <6>1. SUFFICES ASSUME k > id PROVE k \in Ahead(next)
            OBVIOUS
          <6>2. next # End /\ next <= k /\ next \in Nat
            BY <1>7, <5>2, <6>1
          <6>3. k >= next
            BY <5>2, <6>2
          <6> QED
            BY <5>2, <6>2, <6>3 DEF Ahead
        <5>5. k \in e.called \/ k = id \/ k > id
          BY <1>6, <5>2, <5>3
        <5> QED
          BY <2>3, <3>2, <5>4, <5>5
      <4>4. ASSUME ~f.nested
            PROVE  /\ IsInjective(f.own)
                   /\ \A k \in DOMAIN f.own : f.own[k] <= made[s] /\ (next # End => f.own[k] < next)
        <5>1. ~e.nested /\ i = last
          BY <2>3, <2>4, <3>2, <4>4
        <5>2. f.own = Append(e.own, id) /\ e.own \in Seq(1..MaxConns)
          BY <2>1, <2>3, <5>1 DEF Emit
        <5>3. IsInjective(e.own) /\ \A k \in DOMAIN e.own : e.own[k] <= made[s] /\ e.own[k] < id
          BY <1>1, <4>1, <5>1 DEF Reaches
        <5> DEFINE n == Len(e.own)
        <5>4. n \in Nat /\ DOMAIN e.own = 1..n /\ \A k \in 1..n : e.own[k] \in Nat
          <6>1. n \in Nat /\ DOMAIN e.own = 1..n
            BY <5>2, LenProperties
          <6>2. \A k \in 1..n : e.own[k] \in 1..MaxConns
            BY <5>2, ElementOfSeq
          <6> QED
            BY <6>1, <6>2
        <5>5. /\ \A k \in 1..n : f.own[k] = e.own[k]
              /\ f.own[n + 1] = id /\ DOMAIN f.own = 1..(n + 1)
          <6>1. /\ Append(e.own, id) \in Seq(1..MaxConns) /\ Len(Append(e.own, id)) = n + 1
                /\ \A k \in 1..n : Append(e.own, id)[k] = e.own[k]
                /\ Append(e.own, id)[n + 1] = id
            BY <1>6, <5>2, AppendProperties
          <6> QED
            BY <5>2, <6>1, LenProperties
        <5> HIDE DEF n
        <5>6. \A k \in DOMAIN f.own : k \in 1..n \/ k = n + 1
          BY <5>4, <5>5
        <5>7. IsInjective(f.own)
          <6>1. \A k, l \in 1..n : e.own[k] = e.own[l] => k = l
            BY <5>3, <5>4 DEF IsInjective
          <6>2. \A k \in 1..n : f.own[k] # id
            BY <1>6, <5>3, <5>4, <5>5
          <6>3. \A k, l \in DOMAIN f.own : f.own[k] = f.own[l] => k = l
            BY <5>5, <5>6, <6>1, <6>2
          <6> QED
            BY <6>3 DEF IsInjective
        <5>8. ASSUME NEW k \in DOMAIN f.own PROVE f.own[k] <= made[s] /\ (next # End => f.own[k] < next)
          <6>1. f.own[k] \in Nat /\ f.own[k] <= made[s] /\ f.own[k] <= id
            BY <1>6, <5>3, <5>4, <5>5, <5>6, <5>8
          <6>2. next # End => next \in Nat /\ id < next
            BY <1>6, <1>7
          <6> QED
            BY <1>6, <6>1, <6>2
        <5> QED
          BY <5>7, <5>8
      <4> QED
        BY <1>8, <3>2, <4>2, <4>3, <4>4 DEF Reaches
    <3> QED
      BY <3>1, <3>2
  <2> QED
    BY <1>1, <2>2, <2>3, <2>5, <2>7 DEF Running
<1>15. Emits'
  BY <1>10, <1>14 DEF Emits
<1> QED
  BY <1>11, <1>12, <1>13, <1>15 DEF IInv

LEMMA Ends ==
  ASSUME IInv, EmitEnds
  PROVE  IInv'
<1> DEFINE last == Len(emits)
<1>0. SignalsTypeOK /\ Lists /\ Knows /\ Emits
  BY DEF IInv
<1>1. /\ emits # <<>> /\ emits' = SubSeq(emits, 1, last - 1)
      /\ conns' = conns /\ current' = current /\ senders' = senders /\ alive' = alive
      /\ made' = made /\ halved' = halved
  BY DEF EmitEnds
<1>2. emits \in Seq(Emit) /\ last \in Nat /\ DOMAIN emits = 1..last /\ last # 0 /\ last <= MaxDepth
  <2>1. emits \in Seq(Emit) /\ last \in Nat /\ DOMAIN emits = 1..last /\ last <= MaxDepth
    BY <1>0, LenProperties DEF SignalsTypeOK
  <2> QED
    BY <1>1, <2>1, EmptySeq
<1>3. /\ emits' \in Seq(Emit) /\ Len(emits') = last - 1 /\ DOMAIN emits' = 1..(last - 1)
      /\ \A i \in 1..(last - 1) : emits'[i] = emits[i]
  <2>1. \A i \in 1..(last - 1) : emits[i] \in Emit
    BY <1>2, ElementOfSeq
  <2> DEFINE t == SubSeq(emits, 1, last - 1)
  <2>2. /\ t \in Seq(Emit) /\ Len(t) = IF 1 <= last - 1 THEN (last - 1) - 1 + 1 ELSE 0
        /\ \A i \in 1..((last - 1) - 1 + 1) : t[i] = emits[1 + i - 1]
    <3>1. 1 \in Int /\ last - 1 \in Int
      BY <1>2
    <3> QED
      BY <2>1, <3>1, SubSeqProperties
  <2> HIDE DEF t, last
  <2>3. Len(t) = last - 1
    BY <1>2, <2>2
  <2>4. DOMAIN t = 1..(last - 1)
    BY <2>2, <2>3, LenProperties
  <2>5. \A i \in 1..(last - 1) : t[i] = emits[i]
    BY <1>2, <2>2
  <2>6. emits' = t
    BY <1>1 DEF t, last
  <2> QED
    BY <2>2, <2>3, <2>4, <2>5, <2>6
<1> HIDE DEF last
<1>4. SignalsTypeOK'
  <2>1. Len(emits') <= MaxDepth
    BY <1>2, <1>3, SignalsAssumption DEF SignalsAssumption
  <2> QED
    BY <1>0, <1>1, <1>3, <2>1 DEF SignalsTypeOK
<1>5. Lists'
  BY <1>0, <1>1 DEF Lists
<1>6. Knows'
  BY <1>0, <1>1, KnowsStays
<1>7. Emits'
  <2>1. SUFFICES ASSUME NEW i \in DOMAIN emits' PROVE Running(i)'
    BY DEF Emits
  <2>2. i \in DOMAIN emits /\ emits'[i] = emits[i]
    BY <1>2, <1>3
  <2>3. \A j \in DOMAIN emits' : j \in DOMAIN emits /\ emits'[j] = emits[j]
    BY <1>2, <1>3
  <2>4. Running(i)
    BY <1>0, <2>2 DEF Emits
  <2> QED
    BY <1>1, <2>2, <2>3, <2>4 DEF Running
<1> QED
  BY <1>4, <1>5, <1>6, <1>7 DEF IInv

-----------------------------------------------------------------------------
(* The theorems                                                             *)

LEMMA InitHolds == SignalsInit => IInv
<1> SUFFICES ASSUME SignalsInit PROVE IInv
  OBVIOUS
<1>1. /\ conns = [s \in Sigs |-> {}] /\ current = [s \in Sigs |-> End]
      /\ senders = [o \in Objects |-> {}] /\ alive = Sigs \cup Objects
      /\ emits = <<>> /\ made = [s \in Sigs |-> 0] /\ halved = {}
  BY DEF SignalsInit
<1>2. emits \in Seq(Emit) /\ Len(emits) = 0 /\ DOMAIN emits = {}
  BY <1>1, EmptySeq
<1>3. SignalsTypeOK
  <2>1. 0 \in 0..MaxConns /\ 0 <= MaxDepth
    BY SignalsAssumption DEF SignalsAssumption
  <2> QED
    BY <1>1, <1>2, <2>1 DEF SignalsTypeOK, End
<1>4. Lists
  BY <1>1, FS_EmptySet DEF Lists, Sound
<1>5. Knows
  BY <1>1 DEF Knows, BothSidesKnow, Returned, Gone, Dests
<1>6. Emits
  BY <1>2 DEF Emits
<1> QED
  BY <1>3, <1>4, <1>5, <1>6 DEF IInv

LEMMA NextHolds == IInv /\ [SignalsNext]_signalsVars => IInv'
<1> SUFFICES ASSUME IInv, [SignalsNext]_signalsVars PROVE IInv'
  OBVIOUS
<1>1. CASE UNCHANGED signalsVars
  BY <1>1 DEF signalsVars, IInv, SignalsTypeOK, Lists, Knows, BothSidesKnow, Returned, Gone, Dests, Emits, Running
<1>2. ASSUME NEW s \in Sigs, NEW o \in Objects, Connect(s, o) PROVE IInv'
  BY <1>2, Connects
<1>3. ASSUME NEW s \in Sigs, NEW o \in Objects, Disconnect(s, o) PROVE IInv'
  BY <1>3, Disconnects
<1>4. ASSUME NEW s \in Sigs, SignalDisconnectAll(s) PROVE IInv'
  BY <1>4, DisconnectsAll DEF SignalDisconnectAll
<1>5. ASSUME NEW s \in Sigs, DestroySignal(s) PROVE IInv'
  BY <1>5, DisconnectsAll DEF DestroySignal
<1>6. ASSUME NEW s \in Sigs, EmitBegins(s) PROVE IInv'
  BY <1>6, Begins
<1>7. ASSUME NEW s \in Sigs, NEW t \in Sigs, CopySignal(s, t) PROVE IInv'
  BY <1>7, CopiesSignal
<1>8. ASSUME NEW o \in Objects, DestroyObject(o) PROVE IInv'
  BY <1>8, DestroysObject
<1>9. ASSUME NEW o \in Objects, NEW p \in Objects, CopyObject(o, p) PROVE IInv'
  BY <1>9, CopiesObject
<1>10. CASE EmitCalls
  BY <1>10, Calls
<1>11. CASE EmitEnds
  BY <1>11, Ends
<1> QED
  BY <1>1, <1>2, <1>3, <1>4, <1>5, <1>6, <1>7, <1>8, <1>9, <1>10, <1>11 DEF SignalsNext

LEMMA Always == SignalsSpec => []IInv
BY InitHolds, NextHolds, PTL DEF SignalsSpec

(* What the variables hold, for every number of connections and emits.      *)
THEOREM SignalsTypeCorrect == SignalsSpec => []SignalsTypeOK
<1>1. IInv => SignalsTypeOK
  BY DEF IInv
<1> QED
  BY <1>1, Always, PTL

(* The iterator of an emit never points at an erased connection, whatever   *)
(* slots do while the signal fires (m_current_iterator).                    *)
THEOREM IteratorsValid == SignalsSpec => []IteratorValid
<1>1. IInv => IteratorValid
  BY DEF IInv, Lists, Sound, IteratorValid, Ids
<1> QED
  BY <1>1, Always, PTL

(* Signals and objects know each other, whatever is copied and destroyed,   *)
(* but for the objects that disconnect left with a connection.              *)
THEOREM KnownOnBothSides == SignalsSpec => []BothSidesKnow
<1>1. IInv => BothSidesKnow
  BY DEF IInv, Knows
<1> QED
  BY <1>1, Always, PTL

(* An emit that ends has reached each slot that was connected all the time, *)
(* and none twice unless the signal was emitted inside it.                  *)
THEOREM EmitsReachEach == SignalsSpec => EmitReachesEach
<1> DEFINE Short == Len(emits') < Len(emits)
           e == emits[Len(emits)]
           Good == /\ e.start \cap Ids(e.sig) \subseteq e.called
                   /\ ~e.nested => IsInjective(e.own)
<1>1. IInv /\ [SignalsNext]_signalsVars => [Short => Good]_signalsVars
  <2> SUFFICES ASSUME IInv, SignalsNext, Short PROVE Good
    OBVIOUS
  <2>0. SignalsTypeOK /\ Emits
    BY DEF IInv
  <2>1. emits \in Seq(Emit) /\ Len(emits) \in Nat
    BY <2>0, LenProperties DEF SignalsTypeOK
  <2>2. emits' # emits
    BY <2>1
  <2>3. ~EmitCalls
    <3>1. SUFFICES ASSUME EmitCalls PROVE Len(emits') = Len(emits)
      BY <2>1
    <3>2. DOMAIN emits' = DOMAIN emits
      BY <3>1 DEF EmitCalls
    <3>3. IInv'
      BY <3>1, Calls
    <3> QED
      BY <2>1, <3>2, <3>3, LenProperties DEF IInv, SignalsTypeOK
  <2>4. ASSUME NEW s \in Sigs, EmitBegins(s) PROVE FALSE
    <3> DEFINE old == [i \in DOMAIN emits |->
                         [emits[i] EXCEPT !.nested = emits[i].nested \/ emits[i].sig = s]]
               new == [sig |-> s, start |-> Ids(s), own |-> <<>>, called |-> {}, nested |-> FALSE]
    <3>1. emits' = Append(old, new)
      BY <2>4 DEF EmitBegins
    <3>2. old \in Seq(Emit) /\ Len(old) = Len(emits)
      <4>1. DOMAIN emits = 1..Len(emits)
        BY <2>1, LenProperties
      <4>2. \A i \in DOMAIN emits : emits[i] \in Emit
        BY <2>0, EmitType
      <4>3. old \in [1..Len(emits) -> Emit]
        BY <4>1, <4>2 DEF Emit
      <4> HIDE DEF old
      <4> QED
        BY <2>1, <4>3, IsASeq, LenProperties
    <3>3. new \in Emit
      <4>1. Ids(s) \subseteq 1..MaxConns
        BY <2>0, NumbersType DEF Ids, SignalsTypeOK
      <4> QED
        BY <4>1, EmptySeq DEF Emit
    <3> HIDE DEF old, new
    <3>4. Len(emits') = Len(emits) + 1
      BY <3>1, <3>2, <3>3, AppendProperties
    <3> QED
      BY <2>1, <3>4
  <2>5. EmitEnds
    BY <2>2, <2>3, <2>4 DEF SignalsNext, Connect, Disconnect, SignalDisconnectAll, DestroySignal,
                            CopySignal, DestroyObject, CopyObject
  <2>6. emits # <<>> /\ current[e.sig] = End
    BY <2>5 DEF EmitEnds, Innermost
  <2>7. Len(emits) \in DOMAIN emits
    BY <2>1, <2>6, EmptySeq, LenProperties
  <2>8. Reaches(e, conns[e.sig], current[e.sig], made[e.sig])
    BY <2>0, <2>7 DEF Emits, Running
  <2> HIDE DEF e
  <2>9. Ahead(current[e.sig]) = {}
    BY <2>6 DEF Ahead
  <2> QED
    BY <2>8, <2>9 DEF Reaches, Ids
<1> QED
  BY <1>1, Always, PTL DEF SignalsSpec, EmitReachesEach
=============================================================================
