--------------------------- MODULE ServerLifecycle ----------------------------
(* Dedicated threads and their registry, and the server that runs on them:   *)
(* RunServer registers the dispatcher, whose thread registers the handlers;  *)
(* StopServer stops the dispatcher, whose Terminate stops the handlers       *)
(* (src/include/common/dedicated_thread_registry.h,                          *)
(* src/network/terrier_server.cpp, connection_dispatcher_task.cpp).          *)
(*                                                                           *)
(* table_latch_ is a spin latch: whoever wants it while it is held waits,    *)
(* its holder included.  An event loop looks for its exit between events.    *)
EXTENDS Integers, Sequences

CONSTANTS
    NumTasks,       \* handlers that the dispatcher registers
    Dispatches,     \* connections that arrive
    EarlyStop,      \* StopServer may come before the dispatcher's thread is in its event loop
    BusyStop,       \* StopServer may come while connections arrive
    StopsFirst      \* the server is stopped before the registry is torn down

ASSUME LAssumption == NumTasks \in Nat

VARIABLES
    registered,     \* keys of threads_table_
    thread,         \* thread[t]: the thread of task t
    exitAsked,      \* tasks whose terminate_ event is active
    deleted,        \* tasks that were deleted
    handlerTasks,   \* handlers_ of the dispatcher
    notifying,      \* the handler that DispatchConnection is about to notify
    arrived,        \* connections so far
    mainAt,         \* where the thread that runs and stops the server is
    toStop,         \* handlers that Terminate has still to stop
    toTear,         \* tasks that TearDown has still to stop
    latchHeld       \* table_latch_ is held (by TearDown: other holders release it in the same step)

lifeVars == <<registered, thread, exitAsked, deleted, handlerTasks, notifying, arrived, mainAt, toStop, toTear, latchHeld>>

Dispatcher == 0
HandlerTasks == 1 .. NumTasks
AllTasks == HandlerTasks \cup {Dispatcher}

LInit ==
    /\ registered = {} /\ thread = [t \in AllTasks |-> "none"]
    /\ exitAsked = {} /\ deleted = {} /\ handlerTasks = <<>>
    /\ notifying = 0 /\ arrived = 0
    /\ mainAt = "start" /\ toStop = <<>> /\ toTear = {} /\ latchHeld = FALSE

\* RegisterDedicatedThread.
Register(t) ==
    /\ ~latchHeld
    /\ registered' = registered \cup {t}
    /\ thread' = [thread EXCEPT ![t] = "started"]

RunServer ==
    /\ mainAt = "start" /\ mainAt' = "up" /\ Register(Dispatcher)
    /\ UNCHANGED <<exitAsked, deleted, handlerTasks, notifying, arrived, toStop, toTear, latchHeld>>

\* RunTask of the dispatcher: one handler after the other, then the event loop.
RegisterHandler ==
    /\ thread[Dispatcher] = "started" /\ Len(handlerTasks) < NumTasks
    /\ LET t == Len(handlerTasks) + 1 IN Register(t) /\ handlerTasks' = Append(handlerTasks, t)
    /\ UNCHANGED <<exitAsked, deleted, notifying, arrived, mainAt, toStop, toTear, latchHeld>>

EnterLoop(t) ==
    /\ thread[t] = "started" /\ (t = Dispatcher => Len(handlerTasks) = NumTasks)
    /\ thread' = [thread EXCEPT ![t] = "loop"]
    /\ UNCHANGED <<registered, exitAsked, deleted, handlerTasks, notifying, arrived, mainAt, toStop, toTear, latchHeld>>

\* DispatchConnection picks the next handler, then notifies it.
ConnectionArrives ==
    /\ thread[Dispatcher] = "loop" /\ notifying = 0 /\ arrived < Dispatches
    /\ BusyStop \/ mainAt = "up"
    /\ notifying' = handlerTasks[(arrived % NumTasks) + 1] /\ arrived' = arrived + 1
    /\ UNCHANGED <<registered, thread, exitAsked, deleted, handlerTasks, mainAt, toStop, toTear, latchHeld>>

NotifyHandler ==
    /\ notifying # 0 /\ notifying' = 0
    /\ UNCHANGED <<registered, thread, exitAsked, deleted, handlerTasks, arrived, mainAt, toStop, toTear, latchHeld>>

\* The terminate_ event ends the loop, and with it the thread.
ExitLoop(t) ==
    /\ thread[t] = "loop" /\ t \in exitAsked /\ (t = Dispatcher => notifying = 0)
    /\ thread' = [thread EXCEPT ![t] = "exited"]
    /\ UNCHANGED <<registered, exitAsked, deleted, handlerTasks, notifying, arrived, mainAt, toStop, toTear, latchHeld>>

-----------------------------------------------------------------------------
(* StopTask(dispatcher), with the dispatcher's Terminate inside it. *)

StopServer ==
    /\ mainAt = "up" /\ StopsFirst
    /\ EarlyStop \/ thread[Dispatcher] = "loop"
    /\ BusyStop \/ notifying = 0
    /\ ~latchHeld
    /\ mainAt' = "terminate"
    /\ UNCHANGED <<registered, thread, exitAsked, deleted, handlerTasks, notifying, arrived, toStop, toTear, latchHeld>>

\* A faulty variant: the handlers are left running.
TerminateWithoutHandlers(from, to) ==
    /\ mainAt = from /\ mainAt' = to
    /\ exitAsked' = exitAsked \cup {Dispatcher}
    /\ toStop' = <<>>

\* Terminate: ExitLoop, and the handlers that are known at this time.
TerminateDispatcher(from, to) ==
    /\ mainAt = from /\ mainAt' = to
    /\ exitAsked' = exitAsked \cup {Dispatcher}
    /\ toStop' = handlerTasks

StopBegins ==
    /\ TerminateDispatcher("terminate", "handlers")
    /\ UNCHANGED <<registered, thread, deleted, handlerTasks, notifying, arrived, toTear, latchHeld>>

\* StopTask of a handler: look it up, terminate it.
StopHandler ==
    /\ mainAt \in {"handlers", "tear handlers"} /\ toStop # <<>> /\ Head(toStop) \notin exitAsked
    /\ ~latchHeld
    /\ exitAsked' = exitAsked \cup {Head(toStop)}
    /\ UNCHANGED <<registered, thread, deleted, handlerTasks, notifying, arrived, mainAt, toStop, toTear, latchHeld>>

\* Its thread is joined; the task leaves the tables and is deleted.
HandlerStopped ==
    /\ mainAt \in {"handlers", "tear handlers"} /\ toStop # <<>> /\ Head(toStop) \in exitAsked
    /\ thread[Head(toStop)] = "exited" /\ ~latchHeld
    /\ registered' = registered \ {Head(toStop)} /\ deleted' = deleted \cup {Head(toStop)}
    /\ toStop' = Tail(toStop)
    /\ UNCHANGED <<thread, exitAsked, handlerTasks, notifying, arrived, mainAt, toTear, latchHeld>>

DispatcherStopped ==
    /\ mainAt = "handlers" /\ toStop = <<>> /\ thread[Dispatcher] = "exited" /\ ~latchHeld
    /\ registered' = registered \ {Dispatcher} /\ deleted' = deleted \cup {Dispatcher}
    /\ mainAt' = "stopped"
    /\ UNCHANGED <<thread, exitAsked, handlerTasks, notifying, arrived, toStop, toTear, latchHeld>>

-----------------------------------------------------------------------------
(* TearDown, with the latch held from the beginning to the end. *)

TearDown ==
    /\ mainAt = "stopped" \/ (mainAt = "up" /\ ~StopsFirst)
    /\ ~latchHeld /\ latchHeld' = TRUE
    /\ toTear' = registered /\ mainAt' = "tear"
    /\ UNCHANGED <<registered, thread, exitAsked, deleted, handlerTasks, notifying, arrived, toStop>>

TearTask(t) ==
    /\ mainAt = "tear" /\ t \in toTear /\ t \notin exitAsked
    /\ IF t = Dispatcher THEN TerminateDispatcher("tear", "tear handlers")
       ELSE exitAsked' = exitAsked \cup {t} /\ UNCHANGED <<mainAt, toStop>>
    /\ UNCHANGED <<registered, thread, deleted, handlerTasks, notifying, arrived, toTear, latchHeld>>

TornDown(t) ==
    /\ t \in toTear \cap exitAsked /\ thread[t] = "exited"
    /\ mainAt = IF t = Dispatcher THEN "tear handlers" ELSE "tear"
    /\ t = Dispatcher => toStop = <<>>
    /\ toTear' = toTear \ {t} /\ deleted' = deleted \cup {t} /\ mainAt' = "tear"
    /\ UNCHANGED <<registered, thread, exitAsked, handlerTasks, notifying, arrived, toStop, latchHeld>>

TearDownReturns ==
    /\ mainAt = "tear" /\ toTear = {}
    /\ mainAt' = "down" /\ registered' = {} /\ latchHeld' = FALSE
    /\ UNCHANGED <<thread, exitAsked, deleted, handlerTasks, notifying, arrived, toStop, toTear>>

TaskThread(t) == EnterLoop(t) \/ ExitLoop(t)
MainThread ==
    \/ RunServer \/ StopServer \/ StopBegins \/ StopHandler \/ HandlerStopped \/ DispatcherStopped
    \/ TearDown \/ (\E t \in AllTasks : TearTask(t) \/ TornDown(t)) \/ TearDownReturns

LNext ==
    \/ MainThread \/ RegisterHandler \/ ConnectionArrives \/ NotifyHandler
    \/ \E t \in AllTasks : TaskThread(t)

LSpec == LInit /\ [][LNext]_lifeVars

-----------------------------------------------------------------------------
\* The dispatcher notifies a handler only while the handler exists: Terminate deletes the
\* handlers while the dispatcher's own loop may still be running.
NotifiesLiveHandler == notifying \notin deleted

\* StopServer leaves no thread of the server behind (StopTask, Terminate).
StoppedServerHasNoThreads ==
    mainAt = "stopped" => \A t \in AllTasks : thread[t] \in {"none", "exited"} /\ t \notin registered

\* A task is deleted only when its thread has ended, and its table entry goes with it.
DeletedAfterExit == \A t \in deleted : thread[t] = "exited"

\* Stopping the server and tearing down the registry end: nobody waits for a latch that is
\* held by the one who waits for it.
ServerShutsDown == (mainAt = "up") ~> (mainAt = "down")

\* Threads end before what they use is deleted, and all of them before StopServer returns.
ThreadsEnd == StoppedServerHasNoThreads /\ DeletedAfterExit
=============================================================================
