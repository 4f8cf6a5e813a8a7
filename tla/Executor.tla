------------------------------ MODULE Executor ------------------------------
(***************************************************************************)
(* What a thread pool promises, without threads, mutex or wake-ups: tasks   *)
(* wait in line, begin in the order of acceptance, at most Width at a time, *)
(* each of them once; nothing is accepted once the pool is shut, and it is  *)
(* gone only when everything accepted has run to its end.                   *)
(***************************************************************************)
EXTENDS Integers, Sequences, FiniteSets

CONSTANTS Tasks, Width

VARIABLES
  line,  \* accepted tasks that have not begun
  stage, \* each task's stage
  shut,
  gone

evars == <<line, stage, shut, gone>>

Running == {t \in Tasks : stage[t] = "running"}

ExecInit ==
  /\ line = <<>>
  /\ stage = [t \in Tasks |-> "new"]
  /\ shut = FALSE /\ gone = FALSE

Accept(t) ==
  /\ ~shut /\ stage[t] = "new"
  /\ line' = Append(line, t)
  /\ stage' = [stage EXCEPT ![t] = "queued"]
  /\ UNCHANGED <<shut, gone>>

Refuse(t) ==
  /\ shut /\ ~gone /\ stage[t] = "new"
  /\ stage' = [stage EXCEPT ![t] = "refused"]
  /\ UNCHANGED <<line, shut, gone>>

Begin ==
  /\ line # <<>> /\ stage[Head(line)] = "queued"
  /\ Cardinality(Running) < Width
  /\ stage' = [stage EXCEPT ![Head(line)] = "running"]
  /\ line' = Tail(line)
  /\ UNCHANGED <<shut, gone>>

End(t) ==
  /\ stage[t] = "running"
  /\ stage' = [stage EXCEPT ![t] = "done"]
  /\ UNCHANGED <<line, shut, gone>>

Close == ~shut /\ shut' = TRUE /\ UNCHANGED <<line, stage, gone>>

Vanish ==
  /\ shut /\ \A t \in Tasks : stage[t] \in {"new", "refused", "done"}
  /\ gone' = TRUE
  /\ UNCHANGED <<line, stage, shut>>

ExecNext ==
  \/ \E t \in Tasks : Accept(t) \/ Refuse(t) \/ End(t)
  \/ Begin \/ Close \/ Vanish

ExecSpec == ExecInit /\ [][ExecNext]_evars
=============================================================================
