------------------------------- MODULE Signals -------------------------------
(***************************************************************************)
(* sigslot.hpp under its default policy, single_threaded: signals hold a    *)
(* list of connections, objects with slots the set of the signals that hold *)
(* one to them.  Slots are user code: between two steps of an emit, and so  *)
(* from inside a slot, any operation may run, a nested emit included.       *)
(* A connection has an identity, as a std::list iterator sees it.  A list   *)
(* grows at its end only, so it is the set of its connections in the order  *)
(* of their numbers.                                                        *)
(***************************************************************************)
EXTENDS Naturals, Sequences, FiniteSets, FiniteSetsExt, Functions

CONSTANTS
  Sigs,     \* addresses at which a signal may live
  Objects,  \* addresses at which an object with slots may live
  MaxConns, \* bound: connections a signal ever makes
  MaxDepth  \* bound: emits inside one another

ASSUME SignalsAssumption == MaxConns \in Nat /\ MaxDepth \in Nat /\ Sigs \cap Objects = {}

VARIABLES
  conns,    \* m_connected_slots of each signal
  current,  \* m_current_iterator of each signal: a connection, or End
  senders,  \* m_senders of each object
  alive,    \* the signals and objects that exist
  emits,    \* the emits that run, the innermost last
  made,     \* history: connections made by each signal
  halved    \* history: an object that disconnect(o) left with a connection
            \* to a signal it has forgotten

signalsVars == <<conns, current, senders, alive, emits, made, halved>>

End == 0

(* A connection: what emit calls, by the object it belongs to.              *)
Connection == [id : 1..MaxConns, dest : Objects]

(* A running emit: the connections there were when it began, those it has   *)
(* called and those called since then, and whether another emit of the      *)
(* signal ran inside it.                                                    *)
Emit == [sig : Sigs, start : SUBSET (1..MaxConns), own : Seq(1..MaxConns),
         called : SUBSET (1..MaxConns), nested : BOOLEAN]

Numbers(list) == {c.id : c \in list}
Ids(s) == Numbers(conns[s])
Dests(s) == {c.dest : c \in conns[s]}
Firing(s) == \E i \in DOMAIN emits : emits[i].sig = s

SignalsTypeOK ==
  /\ conns \in [Sigs -> SUBSET Connection]
  /\ current \in [Sigs -> 0..MaxConns]
  /\ senders \in [Objects -> SUBSET Sigs]
  /\ alive \subseteq Sigs \cup Objects
  /\ emits \in Seq(Emit) /\ Len(emits) <= MaxDepth
  /\ made \in [Sigs -> 0..MaxConns] /\ halved \subseteq Sigs \X Objects

SignalsInit ==
  /\ conns = [s \in Sigs |-> {}]
  /\ current = [s \in Sigs |-> End]
  /\ senders = [o \in Objects |-> {}]
  /\ alive = Sigs \cup Objects
  /\ emits = <<>> /\ made = [s \in Sigs |-> 0] /\ halved = {}

-----------------------------------------------------------------------------
(* The list                                                                 *)

(* The first of these numbers, or End.                                      *)
First(ids) == IF ids = {} THEN End ELSE Min(ids)

(* The connection after the one with this identity, or End.                 *)
After(list, id) == First({i \in Numbers(list) : i > id})

Without(list, ids) == {c \in list : c.id \notin ids}

(* The iterator of an emit steps past the connections that are erased.      *)
Advanced_Stays(list, id, ids) == id
Advanced_Ends(list, id, ids) == IF id \in ids THEN End ELSE id
Advanced(list, id, ids) ==
  IF id = End THEN End ELSE First({i \in Numbers(list) : i >= id /\ i \notin ids})

(* The same connections, numbered anew in their order.                      *)
Rank(list, c) == Cardinality({d \in list : d.id <= c.id})
Renumbered(list, from) == {[id |-> from + Rank(list, c), dest |-> c.dest] : c \in list}

Erase(s, ids) ==
  /\ conns' = [conns EXCEPT ![s] = Without(@, ids)]
  /\ current' = [current EXCEPT ![s] = Advanced(conns[s], @, ids)]

(* The connections of a signal to one object.                               *)
To(s, o) == {c \in conns[s] : c.dest = o}

-----------------------------------------------------------------------------
(* Operations on a signal                                                   *)

Connect(s, o) ==
  /\ {s, o} \subseteq alive /\ made[s] < MaxConns
  /\ conns' = [conns EXCEPT ![s] = @ \cup {[id |-> made[s] + 1, dest |-> o]}]
  /\ senders' = [senders EXCEPT ![o] = @ \cup {s}]
  /\ made' = [made EXCEPT ![s] = @ + 1]
  /\ halved' = halved \ {<<s, o>>}
  /\ UNCHANGED <<current, alive, emits>>

(* disconnect(pclass) erases the first connection to the object, whatever   *)
(* slot it is for, and makes the object forget the signal.                  *)
Disconnect(s, o) ==
  /\ {s, o} \subseteq alive /\ To(s, o) # {}
  /\ Erase(s, {First(Numbers(To(s, o)))})
  /\ senders' = [senders EXCEPT ![o] = @ \ {s}]
  /\ halved' = IF Cardinality(To(s, o)) > 1 THEN halved \cup {<<s, o>>} ELSE halved \ {<<s, o>>}
  /\ UNCHANGED <<alive, emits, made>>

Forgets_Nobody(s) == senders
Forgets(s) == [o \in Objects |-> IF o \in Dests(s) THEN senders[o] \ {s} ELSE senders[o]]

(* disconnect_all: also the end of the emits that run.                      *)
DisconnectAll(s) ==
  /\ conns' = [conns EXCEPT ![s] = {}]
  /\ current' = [current EXCEPT ![s] = End]
  /\ senders' = Forgets(s)
  /\ halved' = {h \in halved : h[1] # s}

SignalDisconnectAll(s) ==
  /\ s \in alive /\ Dests(s) \subseteq alive
  /\ DisconnectAll(s)
  /\ UNCHANGED <<alive, emits, made>>

(* A signal is not destroyed while it fires.                                *)
DestroySignal(s) ==
  /\ s \in alive /\ ~Firing(s) /\ Dests(s) \subseteq alive
  /\ DisconnectAll(s)
  /\ alive' = alive \ {s}
  /\ UNCHANGED <<emits, made>>

(* The copy constructor: every object of the original is connected.         *)
CopySignal(s, t) ==
  /\ s \in alive /\ t \in Sigs \ alive
  /\ Dests(s) \subseteq alive /\ made[t] + Cardinality(conns[s]) <= MaxConns
  /\ conns' = [conns EXCEPT ![t] = Renumbered(conns[s], made[t])]
  /\ current' = [current EXCEPT ![t] = End]
  /\ senders' = [o \in Objects |-> IF o \in Dests(s) THEN senders[o] \cup {t} ELSE senders[o]]
  /\ alive' = alive \cup {t}
  /\ made' = [made EXCEPT ![t] = @ + Cardinality(conns[s])]
  /\ UNCHANGED <<emits, halved>>

-----------------------------------------------------------------------------
(* Operations on an object                                                  *)

(* The destructor: every signal the object knows erases its connections.    *)
DestroyObject(o) ==
  LET gone(s) == IF s \in senders[o] THEN Numbers(To(s, o)) ELSE {} IN
  /\ o \in alive
  /\ conns' = [s \in Sigs |-> Without(conns[s], gone(s))]
  /\ current' = [s \in Sigs |-> Advanced(conns[s], current[s], gone(s))]
  /\ senders' = [senders EXCEPT ![o] = {}]
  /\ alive' = alive \ {o}
  /\ UNCHANGED <<emits, made, halved>>

(* The copy constructor: each signal the original knows doubles its         *)
(* connections to it.                                                       *)
CopyObject(o, p) ==
  LET doubled(s) ==
        IF s \notin senders[o] THEN {}
        ELSE Renumbered({[c EXCEPT !.dest = p] : c \in To(s, o)}, made[s])
  IN
  /\ o \in alive /\ p \in Objects \ alive
  /\ \A s \in Sigs : p \notin Dests(s) /\ made[s] + Cardinality(doubled(s)) <= MaxConns
  /\ conns' = [s \in Sigs |-> conns[s] \cup doubled(s)]
  /\ senders' = [senders EXCEPT ![p] = senders[o]]
  /\ alive' = alive \cup {p}
  /\ made' = [s \in Sigs |-> made[s] + Cardinality(doubled(s))]
  /\ UNCHANGED <<current, emits, halved>>

-----------------------------------------------------------------------------
(* Emit                                                                     *)

EmitBegins(s) ==
  /\ s \in alive /\ Len(emits) < MaxDepth
  /\ current' = [current EXCEPT ![s] = First(Ids(s))]
  /\ emits' = Append([i \in DOMAIN emits |-> [emits[i] EXCEPT !.nested = @ \/ emits[i].sig = s]],
                     [sig |-> s, start |-> Ids(s), own |-> <<>>, called |-> {}, nested |-> FALSE])
  /\ UNCHANGED <<conns, senders, alive, made, halved>>

Innermost == emits[Len(emits)].sig

(* One turn of the loop: the iterator is advanced, then the slot called.    *)
EmitCalls ==
  /\ emits # <<>> /\ current[Innermost] # End
  /\ LET s == Innermost  id == current[s]  list == conns[s] IN
     /\ (CHOOSE c \in list : c.id = id).dest \in alive
     /\ current' = [current EXCEPT ![s] = After(list, id)]
     /\ emits' = [i \in DOMAIN emits |->
                   [emits[i] EXCEPT
                      !.called = IF emits[i].sig = s THEN @ \cup {id} ELSE @,
                      !.own = IF i = Len(emits) THEN Append(@, id) ELSE @]]
  /\ UNCHANGED <<conns, senders, alive, made, halved>>

EmitEnds ==
  /\ emits # <<>> /\ current[Innermost] = End
  /\ emits' = SubSeq(emits, 1, Len(emits) - 1)
  /\ UNCHANGED <<conns, current, senders, alive, made, halved>>

SignalsNext ==
  \/ \E s \in Sigs, o \in Objects : Connect(s, o) \/ Disconnect(s, o)
  \/ \E s \in Sigs : SignalDisconnectAll(s) \/ DestroySignal(s) \/ EmitBegins(s)
  \/ \E s, t \in Sigs : CopySignal(s, t)
  \/ \E o \in Objects : DestroyObject(o)
  \/ \E o, p \in Objects : CopyObject(o, p)
  \/ EmitCalls \/ EmitEnds

SignalsSpec == SignalsInit /\ [][SignalsNext]_signalsVars

-----------------------------------------------------------------------------
(* INVARIANT.  The iterator of an emit never points at an erased            *)
(* connection, whatever the slots connect, disconnect, copy and destroy     *)
(* (m_current_iterator, sigslot.hpp:384, 410, 437).                         *)
IteratorValid == \A s \in Sigs : current[s] \in Ids(s) \cup {End}

(* INVARIANT.  A signal holds connections to living objects that know it,   *)
(* and an object knows living signals only, so that each destructor reaches *)
(* the other side.  The exception is an object that disconnect left with a  *)
(* second connection.                                                       *)
BothSidesKnow ==
  /\ \A s \in Sigs \cap alive : \A o \in Dests(s) :
       <<s, o>> \notin halved => o \in alive /\ s \in senders[o]
  /\ \A o \in Objects : senders[o] \subseteq alive

(* PROPERTY.  When an emit ends, every slot that was connected when it      *)
(* began and still is has been called, by it or by an emit of the same      *)
(* signal inside it; and without such an emit, no slot twice.               *)
EmitReachesEach ==
  [][Len(emits') < Len(emits) =>
       LET e == emits[Len(emits)] IN
       /\ e.start \cap Ids(e.sig) \subseteq e.called
       /\ ~e.nested => IsInjective(e.own)]_signalsVars
=============================================================================
