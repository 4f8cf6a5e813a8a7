---------------------------- MODULE BoundedFifo ----------------------------
(***************************************************************************)
(* What a Channel promises, without mutex, wake-ups or a size_ counter: a   *)
(* FIFO buffer that accepts an element while it holds fewer than Cap more   *)
(* than the readers waiting for one, and that once shut lets waiting        *)
(* readers go empty-handed.  A reader that left empty-handed still counts   *)
(* towards the room: that is the price of the counter in channel.hpp.       *)
(***************************************************************************)
EXTENDS Integers, Sequences

CONSTANTS Elements, Cap

VARIABLES
  buf,      \* the elements held, oldest first
  waiting,  \* readers waiting for an element
  gone,     \* readers that left without one
  shut

afvars == <<buf, waiting, gone, shut>>

FifoInit == buf = <<>> /\ waiting = 0 /\ gone = 0 /\ shut = FALSE

Put ==
  /\ Len(buf) < Cap + waiting + gone
  /\ \E e \in Elements : buf' = Append(buf, e)
  /\ UNCHANGED <<waiting, gone, shut>>

TakeNow ==
  /\ buf # <<>>
  /\ buf' = Tail(buf)
  /\ UNCHANGED <<waiting, gone, shut>>

StartWaiting ==
  /\ buf = <<>> /\ ~shut
  /\ waiting' = waiting + 1
  /\ UNCHANGED <<buf, gone, shut>>

TakeAfterWait ==
  /\ waiting > 0 /\ buf # <<>>
  /\ buf' = Tail(buf)
  /\ waiting' = waiting - 1
  /\ UNCHANGED <<gone, shut>>

LeaveEmptyHanded ==
  /\ shut /\ buf = <<>>
  /\ gone' = gone + 1
  /\ waiting' \in {waiting, waiting - 1}
  /\ waiting' >= 0
  /\ UNCHANGED <<buf, shut>>

Shut == shut' = TRUE /\ UNCHANGED <<buf, waiting, gone>>

FifoNext ==
  Put \/ TakeNow \/ StartWaiting \/ TakeAfterWait \/ LeaveEmptyHanded \/ Shut

FifoSpec == FifoInit /\ [][FifoNext]_afvars
=============================================================================
