------------------------------ MODULE WorkerPool ------------------------------
(* A pool of worker threads on one task queue                                *)
(* (src/include/common/worker_pool.h).  task_lock_ makes each critical       *)
(* section one step; the notifications come after it, without the lock, and  *)
(* reach only threads that sleep on the condition variable at that time.     *)
EXTENDS Integers, Sequences, FiniteSets

CONSTANTS
    Callers,        \* threads that use the pool
    Owner,          \* the one of them that starts it and shuts it down
    WorkerIds,      \* names of threads, at least as many as the largest pool has
    PoolSizes,      \* values of num_workers_
    MaxTasks        \* tasks that are submitted

ASSUME WPAssumption ==
    /\ Owner \in Callers /\ IsFiniteSet(WorkerIds)
    /\ PoolSizes \subseteq Nat /\ PoolSizes # {} /\ MaxTasks \in Nat

VARIABLES
    numWorkers,     \* num_workers_
    isRunning,      \* is_running_
    taskQueue,      \* task_queue_
    busyWorkers,    \* busy_workers_
    pool,           \* workers_
    workerAt,       \* workerAt[w]: where the thread is
    workerTask,     \* workerTask[w]: the task that it took
    callerAt,       \* callerAt[p]: the call in progress, "idle" between calls
    submitted,      \* tasks given to SubmitTask
    completed       \* tasks that have been run

poolVars == <<numWorkers, isRunning, taskQueue, busyWorkers, pool, workerAt, workerTask, callerAt, submitted, completed>>

WPInit ==
    /\ numWorkers \in PoolSizes /\ isRunning = FALSE
    /\ taskQueue = <<>> /\ busyWorkers = 0 /\ pool = {}
    /\ workerAt = [w \in WorkerIds |-> "none"] /\ workerTask = [w \in WorkerIds |-> 0]
    /\ callerAt = [p \in Callers |-> "idle"] /\ submitted = 0 /\ completed = {}

\* A faulty variant: tasks that are being run are forgotten.
QueueEmpty == taskQueue = <<>>

AllFinished == busyWorkers = 0 /\ taskQueue = <<>>
Asleep == {w \in WorkerIds : workerAt[w] = "asleep"}
Calls(p, from, to) == callerAt[p] = from /\ callerAt' = [callerAt EXCEPT ![p] = to]

\* Startup: the flag is set, then threads are added.
StartupFlag(p) ==
    /\ p = Owner /\ ~isRunning /\ Calls(p, "idle", "starting")
    /\ isRunning' = TRUE
    /\ UNCHANGED <<numWorkers, taskQueue, busyWorkers, pool, workerAt, workerTask, submitted, completed>>

AddThread(p) ==
    /\ callerAt[p] = "starting" /\ Cardinality(pool) < numWorkers
    /\ \E w \in WorkerIds :
        /\ workerAt[w] = "none" /\ workerAt' = [workerAt EXCEPT ![w] = "check"]
        /\ pool' = pool \cup {w}
    /\ UNCHANGED <<numWorkers, isRunning, taskQueue, busyWorkers, workerTask, callerAt, submitted, completed>>

StartupReturns(p) ==
    /\ Cardinality(pool) >= numWorkers /\ Calls(p, "starting", "idle")
    /\ UNCHANGED <<numWorkers, isRunning, taskQueue, busyWorkers, pool, workerAt, workerTask, submitted, completed>>

SubmitTask(p) ==
    /\ isRunning /\ submitted < MaxTasks /\ Calls(p, "idle", "submitted")
    /\ submitted' = submitted + 1 /\ taskQueue' = Append(taskQueue, submitted + 1)
    /\ UNCHANGED <<numWorkers, isRunning, busyWorkers, pool, workerAt, workerTask, completed>>

\* task_cv_.notify_one().
NotifyWorker(p) ==
    /\ Calls(p, "submitted", "idle")
    /\ IF Asleep = {} THEN UNCHANGED workerAt
       ELSE \E w \in Asleep : workerAt' = [workerAt EXCEPT ![w] = "check"]
    /\ UNCHANGED <<numWorkers, isRunning, taskQueue, busyWorkers, pool, workerTask, submitted, completed>>

\* WaitUntilAllFinished looks at its condition, when it is called and when it is notified.
WaitUntilAllFinished(p) ==
    /\ callerAt[p] \in {"idle", "notified"} /\ (callerAt[p] = "idle" => isRunning)
    /\ callerAt' = [callerAt EXCEPT ![p] = IF AllFinished THEN "waited" ELSE "waiting"]
    /\ UNCHANGED <<numWorkers, isRunning, taskQueue, busyWorkers, pool, workerAt, workerTask, submitted, completed>>

WaitReturns(p) ==
    /\ Calls(p, "waited", "idle")
    /\ UNCHANGED <<numWorkers, isRunning, taskQueue, busyWorkers, pool, workerAt, workerTask, submitted, completed>>

\* Shutdown: the flag, the notification of all workers, and the joins.
ShutdownFlag(p) ==
    /\ p = Owner /\ isRunning /\ Calls(p, "idle", "stopping")
    /\ isRunning' = FALSE
    /\ UNCHANGED <<numWorkers, taskQueue, busyWorkers, pool, workerAt, workerTask, submitted, completed>>

NotifyAll(p) ==
    /\ Calls(p, "stopping", "joining")
    /\ workerAt' = [w \in WorkerIds |-> IF w \in Asleep THEN "check" ELSE workerAt[w]]
    /\ UNCHANGED <<numWorkers, isRunning, taskQueue, busyWorkers, pool, workerTask, submitted, completed>>

JoinWorkers(p) ==
    /\ \A w \in pool : workerAt[w] = "exited"
    /\ Calls(p, "joining", "stopped")
    /\ workerAt' = [w \in WorkerIds |-> IF workerAt[w] = "exited" THEN "none" ELSE workerAt[w]]
    /\ pool' = {}
    /\ UNCHANGED <<numWorkers, isRunning, taskQueue, busyWorkers, workerTask, submitted, completed>>

\* The pool may change its size and be started again.
SetNumWorkers(p) ==
    /\ Calls(p, "stopped", "idle") /\ numWorkers' \in PoolSizes
    /\ UNCHANGED <<isRunning, taskQueue, busyWorkers, pool, workerAt, workerTask, submitted, completed>>

\* A worker in its critical section: leave, take a task, or sleep.
TakeTask(w) ==
    /\ workerAt[w] = "check"
    /\ IF ~isRunning
       THEN workerAt' = [workerAt EXCEPT ![w] = "exited"] /\ UNCHANGED <<taskQueue, busyWorkers, workerTask>>
       ELSE IF taskQueue = <<>>
       THEN workerAt' = [workerAt EXCEPT ![w] = "asleep"] /\ UNCHANGED <<taskQueue, busyWorkers, workerTask>>
       ELSE /\ workerAt' = [workerAt EXCEPT ![w] = "run"]
            /\ workerTask' = [workerTask EXCEPT ![w] = Head(taskQueue)]
            /\ taskQueue' = Tail(taskQueue) /\ busyWorkers' = busyWorkers + 1
    /\ UNCHANGED <<numWorkers, isRunning, pool, callerAt, submitted, completed>>

RunTask(w) ==
    /\ workerAt[w] = "run" /\ workerAt' = [workerAt EXCEPT ![w] = "ran"]
    /\ completed' = completed \cup {workerTask[w]}
    /\ UNCHANGED <<numWorkers, isRunning, taskQueue, busyWorkers, pool, workerTask, callerAt, submitted>>

TaskDone(w) ==
    /\ workerAt[w] = "ran" /\ workerAt' = [workerAt EXCEPT ![w] = "done"]
    /\ busyWorkers' = busyWorkers - 1
    /\ UNCHANGED <<numWorkers, isRunning, taskQueue, pool, workerTask, callerAt, submitted, completed>>

\* finished_cv_.notify_one().
NotifyFinished(w) ==
    LET waiting == {p \in Callers : callerAt[p] = "waiting"} IN
    /\ workerAt[w] = "done" /\ workerAt' = [workerAt EXCEPT ![w] = "check"]
    /\ IF waiting = {} THEN UNCHANGED callerAt
       ELSE \E p \in waiting : callerAt' = [callerAt EXCEPT ![p] = "notified"]
    /\ UNCHANGED <<numWorkers, isRunning, taskQueue, busyWorkers, pool, workerTask, submitted, completed>>

CallerStep(p) ==
    \/ StartupFlag(p) \/ AddThread(p) \/ StartupReturns(p) \/ SubmitTask(p) \/ NotifyWorker(p)
    \/ WaitUntilAllFinished(p) \/ WaitReturns(p) \/ ShutdownFlag(p) \/ NotifyAll(p) \/ JoinWorkers(p)
    \/ SetNumWorkers(p)

\* What a call does once it was made.
CallContinues(p) == callerAt[p] # "idle" /\ CallerStep(p)

WorkerStep(w) == TakeTask(w) \/ RunTask(w) \/ TaskDone(w) \/ NotifyFinished(w)

WPNext == (\E p \in Callers : CallerStep(p)) \/ (\E w \in WorkerIds : WorkerStep(w))

WPSpec == WPInit /\ [][WPNext]_poolVars

-----------------------------------------------------------------------------
\* When WaitUntilAllFinished returns, no task that its own thread submitted is still to be
\* run: with one caller, every task is completed (busy_workers_ against the queue).
WaitedForAll == \A p \in Callers : callerAt[p] = "waited" /\ Callers = {p} => completed = 1 .. submitted

\* Every task that was submitted is in exactly one place: the queue, a worker, or completed.
TasksNeitherLostNorDoubled ==
    LET queued == {taskQueue[i] : i \in 1 .. Len(taskQueue)}
        taken == {workerTask[w] : w \in {v \in WorkerIds : workerAt[v] = "run"}}
    IN /\ queued \cup taken \cup completed = 1 .. submitted
       /\ Len(taskQueue) + Cardinality({w \in WorkerIds : workerAt[w] = "run"}) + Cardinality(completed) = submitted

\* After Shutdown no worker thread is left, and as many run as were asked for.
ShutdownComplete ==
    /\ \A p \in Callers : callerAt[p] = "stopped" => \A w \in WorkerIds : workerAt[w] = "none"
    /\ {w \in WorkerIds : workerAt[w] # "none"} = pool /\ Cardinality(pool) <= numWorkers

\* Calls return: a caller that waits is woken when everything is done, and the workers of a
\* pool that is shut down end.
PoolCallsReturn == \A p \in Callers : (callerAt[p] # "idle") ~> (callerAt[p] = "idle")

\* The pool runs every task once, says so only then, and ends its threads.
PoolAccounts == TasksNeitherLostNorDoubled /\ WaitedForAll /\ ShutdownComplete
=============================================================================
