-------------------------- MODULE MCTaskQueueService --------------------------
(***************************************************************************)
(* Instances for TLC of the queue and the lock of task_queue_service.py.   *)
(* They share no state, so that one of them takes all the steps of a       *)
(* behaviour and the other rests.                                          *)
(***************************************************************************)
EXTENDS TaskQueue, DistributedLock

VARIABLE active     \* the part that takes the steps

ServiceInit == active \in {"queue", "lock"} /\ Init /\ LockInit

QueueStep == active = "queue" /\ Next /\ UNCHANGED lockVars
LockStep == active = "lock" /\ LockNext /\ UNCHANGED vars

ServiceNext == (QueueStep \/ LockStep) /\ UNCHANGED active

\* The daemons have their fairness; what it is about rests while the lock is active.
ServiceSpec == ServiceInit /\ [][ServiceNext]_<<active, vars, lockVars>> /\ Fairness

\* The second job enqueued is the more urgent one.
SecondFirst == [j \in Jobs |-> j]
===============================================================================
