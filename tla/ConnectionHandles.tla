-------------------------- MODULE ConnectionHandles ---------------------------
(* From accept to close: the dispatcher hands a connection to a handler      *)
(* thread, which takes the handle of the same descriptor from the factory or *)
(* makes one and registers its two events; closing frees the descriptor and  *)
(* then unregisters the events (src/network/connection_dispatcher_task.cpp,  *)
(* connection_handler_task.cpp, connection_handle_factory.cpp,               *)
(* connection_handle.cpp, src/common/notifiable_task.cpp).                   *)
(*                                                                           *)
(* A handle is shared by the connections that have the same descriptor one   *)
(* after the other.  What happens on an open connection is ConnectionIo.     *)
EXTENDS Integers, Sequences

CONSTANTS
    Clients,        \* connections, each accepted and closed once
    NumHandlers,    \* num_handlers_ of the dispatcher
    Fds,            \* descriptors that the kernel gives out, the lowest free one first
    PromptReuse     \* a descriptor may be given out again before its handler has unregistered
                    \* the events of the connection that had it

ASSUME HAssumption ==
    /\ NumHandlers \in Nat \ {0} /\ Fds \subseteq Nat \ {0}
    /\ 0 \notin Clients     \* no client is Nobody

VARIABLES
    fdOf,           \* fdOf[c]: 0 before the client was accepted
    closed,         \* clients whose descriptor was closed
    accepted,       \* the client that DispatchConnection hands over, to which handler, and how far
    nextHandler,    \* next_handler_
    jobs,           \* jobs[h]: jobs_
    notified,       \* notified[h]: the notify event is active
    handle,         \* handle[f]: conn_handler_, network_event_, workpool_event_ (reusable_handles_)
    events,         \* events[h]: events_ of the handler's NotifiableTask
    handlerAt,      \* handlerAt[h]: where the handler's thread is
    current         \* current[h]: the client that it is working for

handleVars == <<fdOf, closed, accepted, nextHandler, jobs, notified, handle, events, handlerAt, current>>

Handlers == 0 .. NumHandlers - 1
Nobody == 0
NoEvent == <<>>
NoHandle == [handler |-> -1, network |-> NoEvent, workpool |-> NoEvent]
FdsInUse == {fdOf[c] : c \in {d \in Clients : fdOf[d] # 0 /\ d \notin closed}}

\* Descriptors whose last handler is still between Close and the end of TryCloseConnection.
Unregistering == {fdOf[current[h]] : h \in {k \in Handlers : handlerAt[k] \in {"network", "workpool"}}}

HInit ==
    /\ fdOf = [c \in Clients |-> 0] /\ closed = {}
    /\ accepted = <<>> /\ nextHandler = 0
    /\ jobs = [h \in Handlers |-> <<>>] /\ notified = [h \in Handlers |-> FALSE]
    /\ handle = [f \in Fds |-> NoHandle]
    /\ events = [h \in Handlers |-> {}]
    /\ handlerAt = [h \in Handlers |-> "loop"] /\ current = [h \in Handlers |-> Nobody]

\* DispatchConnection: accept, and the choice of the handler.
DispatchConnection(c) ==
    LET free == {f \in Fds : f \notin FdsInUse /\ (PromptReuse \/ f \notin Unregistering)} IN
    /\ accepted = <<>> /\ fdOf[c] = 0
    /\ \E f \in free :
        /\ \A g \in free : f <= g
        /\ fdOf' = [fdOf EXCEPT ![c] = f]
    /\ accepted' = <<c, nextHandler, "notify">>
    /\ nextHandler' = (nextHandler + 1) % NumHandlers
    /\ UNCHANGED <<closed, jobs, notified, handle, events, handlerAt, current>>

\* A faulty variant: the connection is given to every handler.
NotifyEveryHandler ==
    /\ accepted # <<>> /\ accepted[3] = "notify"
    /\ LET h == accepted[2] IN
       /\ handlerAt[h] \notin {"adopt", "manual", "register"}
       /\ jobs' = [k \in Handlers |-> Append(jobs[k], accepted[1])]
    /\ accepted' = [accepted EXCEPT ![3] = "activate"]
    /\ UNCHANGED <<fdOf, closed, nextHandler, notified, handle, events, handlerAt, current>>

\* Notify: the latch on the jobs is free unless the handler is in HandleDispatch.
Notify ==
    /\ accepted # <<>> /\ accepted[3] = "notify"
    /\ LET h == accepted[2] IN
       /\ handlerAt[h] \notin {"adopt", "manual", "register"}
       /\ jobs' = [jobs EXCEPT ![h] = Append(@, accepted[1])]
    /\ accepted' = [accepted EXCEPT ![3] = "activate"]
    /\ UNCHANGED <<fdOf, closed, nextHandler, notified, handle, events, handlerAt, current>>

\* The rest of Notify: event_active, without the latch.
ActivateNotifyEvent ==
    /\ accepted # <<>> /\ accepted[3] = "activate"
    /\ notified' = [notified EXCEPT ![accepted[2]] = TRUE]
    /\ accepted' = <<>>
    /\ UNCHANGED <<fdOf, closed, nextHandler, jobs, handle, events, handlerAt, current>>

\* HandleDispatch starts, on the handler's own thread, with the latch held.
HandleDispatch(h) ==
    /\ handlerAt[h] = "loop" /\ notified[h]
    /\ notified' = [notified EXCEPT ![h] = FALSE]
    /\ handlerAt' = [handlerAt EXCEPT ![h] = IF jobs[h] = <<>> THEN "loop" ELSE "adopt"]
    /\ UNCHANGED <<fdOf, closed, accepted, nextHandler, jobs, handle, events, current>>

\* NewConnectionHandle: a new handle, or the reset of the one that the descriptor had.
NewConnectionHandle(h) ==
    /\ handlerAt[h] = "adopt"
    /\ current' = [current EXCEPT ![h] = Head(jobs[h])]
    /\ handle' = [handle EXCEPT ![fdOf[Head(jobs[h])]] = [NoHandle EXCEPT !.handler = h]]
    /\ handlerAt' = [handlerAt EXCEPT ![h] = "manual"]
    /\ UNCHANGED <<fdOf, closed, accepted, nextHandler, jobs, notified, events>>

\* RegisterToReceiveEvents registers with the handler that the handle names.
RegisterWorkpoolEvent(h) ==
    /\ handlerAt[h] = "manual"
    /\ LET c == current[h]  e == <<c, "workpool">> IN
       /\ events' = [events EXCEPT ![handle[fdOf[c]].handler] = @ \cup {e}]
       /\ handle' = [handle EXCEPT ![fdOf[c]].workpool = e]
    /\ handlerAt' = [handlerAt EXCEPT ![h] = "register"]
    /\ UNCHANGED <<fdOf, closed, accepted, nextHandler, jobs, notified, current>>

\* The network event; after the last job the jobs are cleared and the latch is released.
RegisterNetworkEvent(h) ==
    /\ handlerAt[h] = "register"
    /\ LET c == current[h]  e == <<c, "network">> IN
       /\ events' = [events EXCEPT ![handle[fdOf[c]].handler] = @ \cup {e}]
       /\ handle' = [handle EXCEPT ![fdOf[c]].network = e]
    /\ jobs' = [jobs EXCEPT ![h] = Tail(@)]
    /\ handlerAt' = [handlerAt EXCEPT ![h] = IF Len(jobs[h]) = 1 THEN "loop" ELSE "adopt"]
    /\ current' = [current EXCEPT ![h] = Nobody]
    /\ UNCHANGED <<fdOf, closed, accepted, nextHandler, notified>>

\* An event of an open connection ends in TryCloseConnection: Teardown, and Close.
TryCloseConnection(h, c) ==
    /\ handlerAt[h] = "loop" /\ <<c, "network">> \in events[h] /\ c \notin closed
    /\ closed' = closed \cup {c}
    /\ handlerAt' = [handlerAt EXCEPT ![h] = "network"]
    /\ current' = [current EXCEPT ![h] = c]
    /\ UNCHANGED <<fdOf, accepted, nextHandler, jobs, notified, handle, events>>

\* NotifiableTask::UnregisterEvent: nothing happens if the task does not know the event.
UnregisterEvent(task, e) == events' = [events EXCEPT ![task] = @ \ {e}]

\* Both fields of the handle are read at this moment.
UnregisterNetworkEvent(h) ==
    /\ handlerAt[h] = "network"
    /\ LET hd == handle[fdOf[current[h]]] IN UnregisterEvent(hd.handler, hd.network)
    /\ handlerAt' = [handlerAt EXCEPT ![h] = "workpool"]
    /\ UNCHANGED <<fdOf, closed, accepted, nextHandler, jobs, notified, handle, current>>

UnregisterWorkpoolEvent(h) ==
    /\ handlerAt[h] = "workpool"
    /\ LET hd == handle[fdOf[current[h]]] IN UnregisterEvent(hd.handler, hd.workpool)
    /\ handlerAt' = [handlerAt EXCEPT ![h] = "loop"] /\ current' = [current EXCEPT ![h] = Nobody]
    /\ UNCHANGED <<fdOf, closed, accepted, nextHandler, jobs, notified, handle>>

HandlerThread(h) ==
    \/ HandleDispatch(h) \/ NewConnectionHandle(h) \/ RegisterWorkpoolEvent(h) \/ RegisterNetworkEvent(h)
    \/ UnregisterNetworkEvent(h) \/ UnregisterWorkpoolEvent(h)

HNext ==
    \/ \E c \in Clients : DispatchConnection(c)
    \/ Notify \/ ActivateNotifyEvent
    \/ \E h \in Handlers : HandlerThread(h)
    \/ \E h \in Handlers, c \in Clients : TryCloseConnection(h, c)

HSpec == HInit /\ [][HNext]_handleVars

-----------------------------------------------------------------------------
\* No two threads work with the same handle, which has no latch: one that registers it and one
\* that is closing it would mix up two connections (NewConnectionHandle, TryCloseConnection).
HandleHasOneThread ==
    \A h, k \in Handlers :
        h # k /\ current[h] # Nobody /\ current[k] # Nobody => fdOf[current[h]] # fdOf[current[k]]

\* Between two events of its thread a connection that was registered and is open has both of
\* its events with its handler, and its handle names them; nothing else is registered: no
\* event outlives its connection and none is lost to the close of another.
EventsMatchConnections ==
    \A h \in Handlers :
        handlerAt[h] = "loop" =>
            /\ \A e \in events[h] :
                /\ e[1] \notin closed
                /\ LET hd == handle[fdOf[e[1]]] IN hd.handler = h /\ e \in {hd.network, hd.workpool}
                /\ \A kind \in {"network", "workpool"} : <<e[1], kind>> \in events[h]

\* Every connection that is accepted gets its events registered: the client is not left
\* without anybody who reads its requests (Notify, HandleDispatch).
AcceptedGetsServed ==
    []<>(\A c \in Clients :
            fdOf[c] # 0 => c \in closed \/ \E h \in Handlers : <<c, "network">> \in events[h])

\* A handle belongs to one connection at a time, with the events that are registered for it.
HandlesOwned == HandleHasOneThread /\ EventsMatchConnections
=============================================================================
