-------------------------------- MODULE Executor --------------------------------
(***************************************************************************)
(* Executor.java: the thread that runs the callbacks of a repository.      *)
(* Tasks wait in a blocking queue (consumers); the worker moves them to a  *)
(* priority queue of its own and runs them from there.  Every task has     *)
(* priority 0 and the STOP task that close offers has priority -1, so the  *)
(* priority queue decides only which of equal tasks is next.               *)
(*                                                                         *)
(* A task is a runnable that is submitted, runs and may then be submitted  *)
(* again: callbacks keep coming as long as the file system changes.        *)
(***************************************************************************)
EXTENDS Naturals, SequencesExt

CONSTANTS
    Task,     \* the runnables
    Stop,     \* STOP
    NoTask

ASSUME ExecutorAssumption == Stop \notin Task /\ NoTask \notin Task \cup {Stop}

VARIABLES
    consumers,   \* consumers: a sequence of tasks and STOPs
    queue,       \* the worker's PriorityQueue, as the array of its heap
    worker,      \* what the worker does next
    current,     \* the task it took, or NoTask
    submitting,  \* tasks whose run has found the executor open
    closed,
    closing,     \* what close does next
    interrupted, \* the worker's interrupt flag
    late         \* the tasks started since close cleared consumers

vars == <<consumers, queue, worker, current, submitting, closed, closing, interrupted, late>>

\* Mutant: STOP has the priority of every other task.
AddLast(heap, tasks) == heap \o tasks

\* Mutant: equal elements are passed on the way up.
AddFirst(heap, tasks) == Reverse(tasks) \o heap

\* PriorityQueue.addAll: one after the other goes to the end of the heap and up past
\* the larger ones, which is all the way for STOP, and nowhere for the others.  close
\* offers STOP to empty consumers, so it is the first of them.  (Below STOP the order
\* is immaterial: nothing is polled after it.)
AddAll(heap, tasks) ==
    IF tasks # <<>> /\ Head(tasks) = Stop THEN <<Stop>> \o heap \o Tail(tasks) ELSE heap \o tasks

\* Mutant: the worker peeks at its queue.
RestPeeked(heap) == heap

\* PriorityQueue.poll, after the head was taken: the last element takes its
\* place and sinks below smaller ones, of which there is none.
Rest(heap) == IF Len(heap) = 1 THEN <<>> ELSE <<Last(heap)>> \o SubSeq(heap, 2, Len(heap) - 1)

\* What drainTo leaves in consumers.
DrainLeaves(tasks) == <<>>

\* Mutant: the inner loop polls without a look at the queue.
AlwaysMore(heap) == TRUE

\* Mutant: the inner loop is an `if`.
NeverMore(heap) == FALSE

\* The condition of the inner loop.
More(heap) == heap # <<>>

Waiting == (ToSet(consumers) \cup ToSet(queue)) \ {Stop}
-----------------------------------------------------------------------------
(* run *)

Run(t) ==
    /\ ~closed /\ t \notin submitting \cup Waiting \cup {current}
    /\ submitting' = submitting \cup {t}
    /\ UNCHANGED <<consumers, queue, worker, current, closed, closing, interrupted, late>>

Offer(t) ==
    /\ t \in submitting
    /\ submitting' = submitting \ {t}
    /\ consumers' = Append(consumers, t)
    /\ UNCHANGED <<queue, worker, current, closed, closing, interrupted, late>>
-----------------------------------------------------------------------------
(* The worker *)

\* The condition of the outer loop.
Check ==
    /\ worker = "checking"
    /\ worker' = IF closed \/ interrupted THEN "stopped" ELSE "taking"
    /\ UNCHANGED <<consumers, queue, current, submitting, closed, closing, interrupted, late>>

\* consumers.take() waits for a task; the queue is a new one.
Take ==
    /\ worker = "taking" /\ ~interrupted /\ consumers # <<>>
    /\ queue' = <<Head(consumers)>>
    /\ consumers' = Tail(consumers)
    /\ worker' = "draining"
    /\ UNCHANGED <<current, submitting, closed, closing, interrupted, late>>

\* It throws when the worker is interrupted, and that ends the outer loop.
TakeThrows ==
    /\ worker = "taking" /\ interrupted
    /\ worker' = "stopped"
    /\ UNCHANGED <<consumers, queue, current, submitting, closed, closing, interrupted, late>>

\* drainRunnables
Drain ==
    /\ worker = "draining"
    /\ queue' = AddAll(queue, consumers)
    /\ consumers' = DrainLeaves(consumers)
    /\ worker' = "polling"
    /\ UNCHANGED <<current, submitting, closed, closing, interrupted, late>>

Poll ==
    /\ worker = "polling"
    /\ current' = Head(queue)
    /\ queue' = Rest(queue)
    /\ worker' = "running"
    /\ late' = IF closing \in {"cleared", "done"} /\ Head(queue) # Stop THEN late + 1 ELSE late
    /\ UNCHANGED <<consumers, submitting, closed, closing, interrupted>>

\* The task ends; it may have consumed the interrupt.  STOP ends the loops.
Finish ==
    /\ worker = "running"
    /\ worker' = IF current = Stop THEN "stopped"
                 ELSE IF More(queue) THEN "draining" ELSE "checking"
    /\ current' = NoTask
    /\ interrupted' \in {interrupted, FALSE}
    /\ UNCHANGED <<consumers, queue, submitting, closed, closing, late>>
-----------------------------------------------------------------------------
(* close *)

CloseSet ==
    /\ ~closed
    /\ closed' = TRUE
    /\ closing' = "set"
    /\ UNCHANGED <<consumers, queue, worker, current, submitting, interrupted, late>>

CloseClear ==
    /\ closing = "set"
    /\ consumers' = <<Stop>>
    /\ closing' = "cleared"
    /\ UNCHANGED <<queue, worker, current, submitting, closed, interrupted, late>>

CloseInterrupt ==
    /\ closing = "cleared"
    /\ interrupted' = TRUE
    /\ closing' = "done"
    /\ UNCHANGED <<consumers, queue, worker, current, submitting, closed, late>>
-----------------------------------------------------------------------------
Init ==
    /\ consumers = <<>> /\ queue = <<>>
    /\ worker = "checking" /\ current = NoTask
    /\ submitting = {}
    /\ closed = FALSE /\ closing = "open" /\ interrupted = FALSE
    /\ late = 0

Work == Check \/ Take \/ TakeThrows \/ Drain \/ Poll \/ Finish
Close == CloseSet \/ CloseClear \/ CloseInterrupt

Next == Work \/ Close \/ \E t \in Task : Run(t) \/ Offer(t)

Spec == Init /\ [][Next]_vars

\* The worker is scheduled and its tasks end; a call that has begun goes on.
Fairness ==
    /\ WF_vars(Work) /\ WF_vars(CloseClear) /\ WF_vars(CloseInterrupt)
    /\ \A t \in Task : WF_vars(Offer(t))

FairSpec == Spec /\ Fairness
-----------------------------------------------------------------------------
\* Tasks and STOP stay in their places; while the worker has something to poll,
\* its queue is not empty, although other threads add to consumers only.
TypeOK ==
    /\ {consumers, queue} \subseteq Seq(Task \cup {Stop})
    /\ worker \in {"checking", "taking", "draining", "polling", "running", "stopped"}
    /\ worker \in {"draining", "polling"} => queue # <<>>
    /\ current \in Task \cup {Stop, NoTask}
    /\ (current # NoTask) <=> (worker = "running")
    /\ submitting \subseteq Task
    /\ closing \in {"open", "set", "cleared", "done"}
    /\ closed <=> closing # "open"
    /\ interrupted \in BOOLEAN
    /\ late \in Nat

\* close stops the worker although its inner loop never looks at `closed`: once
\* consumers was cleared, at most the task it was about to take still starts,
\* however many are in its queue.
AtMostOneLate == late <= 1

\* The executor is a pool of tasks: it runs what was submitted, one task at a
\* time, each once, and forgets none of them unless it is closed.
Pool == INSTANCE TaskPool WITH
            pending <- Waiting,
            running <- IF current = Stop THEN NoTask ELSE current,
            open <- ~closed
ImplementsPool == Pool!PoolSpec

\* "Runs the task on a threadHandle" (Executor.java:20): a submitted task starts,
\* unless the executor is closed first.
EveryTaskRuns == \A t \in Task : t \in submitting ~> (current = t \/ closed)
=============================================================================
