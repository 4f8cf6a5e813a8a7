------------------------------ MODULE CondVar ------------------------------
(***************************************************************************)
(* std::condition_variable as channel.hpp and pool.hpp use it.  The library *)
(* is external: a thread that calls wait is asleep until a notification (or *)
(* a spurious wake-up) moves it to "woken", after which it contends for the *)
(* mutex again and re-evaluates its predicate.  The threads' program        *)
(* counters carry the state: "wait" is asleep, "woken" is awake and about   *)
(* to take the mutex.                                                       *)
(***************************************************************************)

Asleep(pc) == {t \in DOMAIN pc : pc[t] = "wait"}

(* notify_one wakes some sleeping thread, whichever kind it is; with none   *)
(* asleep it does nothing: the notification is not remembered.              *)
NotifyOne(pc) ==
  IF Asleep(pc) = {} THEN {pc}
  ELSE {[pc EXCEPT ![t] = "woken"] : t \in Asleep(pc)}

NotifyAll(pc) == [t \in DOMAIN pc |-> IF pc[t] = "wait" THEN "woken" ELSE pc[t]]
=============================================================================
