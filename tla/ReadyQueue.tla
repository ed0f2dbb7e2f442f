---------------------------- MODULE ReadyQueue ----------------------------
(***************************************************************************)
(* What the scheduler's ready queue promises (spec.md 4.8, 5): it is a    *)
(* round-robin FIFO of distinct tasks.  A task is appended at the tail    *)
(* when it is added, taken out wherever it stands when it is removed, and *)
(* the scheduler's pick moves the head to the tail; scheduler_block takes *)
(* the running task out and picks.  Nothing else ever changes the queue.  *)
(* Scheduler.tla implements this with the intrusive doubly-linked list of *)
(* scheduler.c.                                                           *)
(***************************************************************************)
EXTENDS Sequences, SequencesExt

CONSTANTS
  Tasks,        \* the task control blocks that can ever be queued
  InitQueue     \* the queue as the boot code leaves it

ASSUME IsInjective(InitQueue) /\ ToSet(InitQueue) \subseteq Tasks

VARIABLE queue

Init == queue = InitQueue

\* scheduler_add_process on a task that is not queued.
Enqueue(t) ==
  /\ ~Contains(queue, t)
  /\ queue' = Append(queue, t)

\* scheduler_remove_process on a queued task.
Dequeue(t) ==
  /\ Contains(queue, t)
  /\ queue' = Remove(queue, t)

\* The pick of scheduler_pick_next: the head goes to the tail.
Rotated(q) == IF q = <<>> THEN q ELSE Append(Tail(q), Head(q))

Rotate == queue' = Rotated(queue)

\* scheduler_block: the running task leaves the queue and the scheduler
\* picks, in one step.
DequeueAndRotate(t) ==
  /\ Contains(queue, t)
  /\ queue' = Rotated(Remove(queue, t))

Next ==
  \/ Rotate
  \/ \E t \in Tasks : Enqueue(t) \/ Dequeue(t) \/ DequeueAndRotate(t)

Spec == Init /\ [][Next]_queue
=============================================================================
